---- MODULE Spec2Model ----
(***************************************************************************)
(* Model of the result-parsing, verdict and checkpoint layer of the AdWave *)
(* test harness (core/reporter.py, core/browser_agent.py, tests/*.py).     *)
(*                                                                         *)
(* Text is modelled as a sequence of symbols.  A prompt is a sequence of   *)
(* lines; a transcript is a sequence of lexemes (marker words, blanks,     *)
(* newlines, digits, letters) on which the regular expressions of the code *)
(* are evaluated lexeme by lexeme.  An Optional value is a sequence of     *)
(* length 0 (None) or 1.                                                   *)
(***************************************************************************)
EXTENDS Integers, Sequences, FiniteSets, TLC

VARIABLES
    pc,           \* position of the unit under execution
    test_name,    \* get_checkpoints_for_test: test_name
    test_passed,  \* get_checkpoints_for_test: test_passed
    last_step,    \* get_checkpoints_for_test: last_step
    prompt,       \* get_checkpoints_for_test: prompt (Optional text)
    checkpoints,  \* value returned by get_checkpoints_for_test
    items,        \* the collected tests of the session, in execution order
    cur,          \* index in items of the test being run
    status,       \* outcome of the call phase of the current test
    _last_prompt, \* AdWaveBrowserAgent._last_prompt of the current test's agent
    _last_result, \* AdWaveBrowserAgent._last_result of the current test's agent
    results,      \* TestReport.results
    result,       \* the transcript handed to a verdict rule
    expected,     \* the expected name handed to a list-membership verdict
    ret,          \* the values computed by the verdict rule
    payload,      \* what a notification hands to its transport
    transport,    \* the operations asked of an external party, in order
    clock,        \* the seconds elapsed since the unit started
    inbox         \* the messages of the mailbox, in the order of their numbers

ckVars == <<test_name, test_passed, last_step, prompt, checkpoints>>

sessVars == <<items, cur, status, _last_prompt, _last_result, results>>

vdVars == <<result, expected, ret>>

ntVars == <<payload, transport>>

envVars == <<clock, inbox>>

vars == <<pc, ckVars, sessVars, vdVars, ntVars, envVars>>

----------------------------------------------------------------------------
(* Bounds *)

MaxPromptLines == 3
MaxStepNum == 4
MaxTests == 2
MaxTaskLines == 1
MaxCreativeLen == 5
MaxRegPhrases == 4
MaxListLen == 5
MaxNameLen == 2

----------------------------------------------------------------------------
(* Generic helpers *)

None == <<>>
Some(x) == <<x>>

Range(s) == {s[i] : i \in 1..Len(s)}

SeqsUpTo(S, n) == UNION {[1..k -> S] : k \in 0..n}

----------------------------------------------------------------------------
(* core/reporter.py : prompt parsing *)

\* The whitespace symbols of the texts.
IsSpace(x) == x \in {" ", "\n"}

\* str.strip(): drop leading and trailing whitespace.
RECURSIVE Strip(_)
Strip(s) ==
    IF s = <<>> THEN <<>>
    ELSE IF IsSpace(Head(s)) THEN Strip(Tail(s))
    ELSE IF IsSpace(s[Len(s)]) THEN Strip(SubSeq(s, 1, Len(s) - 1))
    ELSE s

\* str.rstrip(':') : drop every trailing colon.
RECURSIVE RStripColon(_)
RStripColon(s) ==
    IF s # <<>> /\ s[Len(s)] = ":" THEN RStripColon(SubSeq(s, 1, Len(s) - 1))
    ELSE s

\* clean_name = name.strip().rstrip(':').strip()
CleanName(name) == Strip(RStripColon(Strip(name)))

\* re.findall(r'STEP\s+(\d+):\s*([^\n]+)', prompt, re.IGNORECASE):
\* the (number, raw name) pairs of the lines that declare a step, in
\* document order.
RECURSIVE StepMatches(_)
StepMatches(text) ==
    IF text = <<>> THEN <<>>
    ELSE IF Head(text).step
         THEN <<[num |-> Head(text).num, name |-> Head(text).name]>>
              \o StepMatches(Tail(text))
         ELSE StepMatches(Tail(text))

\* The loop over matches: keep the first occurrence of each step number.
RECURSIVE Dedup(_, _)
Dedup(matches, seen_steps) ==
    IF matches = <<>> THEN <<>>
    ELSE LET m == Head(matches) IN
         IF m.num \notin seen_steps
         THEN <<[num |-> m.num, name |-> CleanName(m.name)]>>
              \o Dedup(Tail(matches), seen_steps \cup {m.num})
         ELSE Dedup(Tail(matches), seen_steps)

\* list.sort(key=lambda x: x[0]) : stable sort by step number.
RECURSIVE Insert(_, _)
Insert(x, sorted) ==
    IF sorted = <<>> THEN <<x>>
    ELSE IF x.num < Head(sorted).num THEN <<x>> \o sorted
    ELSE <<Head(sorted)>> \o Insert(x, Tail(sorted))

RECURSIVE SortByNum(_)
SortByNum(steps) ==
    IF steps = <<>> THEN <<>>
    ELSE Insert(steps[Len(steps)], SortByNum(SubSeq(steps, 1, Len(steps) - 1)))

\* Variant of extract_checkpoints_from_prompt that keeps the steps in the
\* order of their first declaration.
extract_checkpoints_from_prompt_unsorted(p) ==
    IF p = None \/ p[1] = <<>> THEN <<>>
    ELSE Dedup(StepMatches(p[1]), {})

extract_checkpoints_from_prompt(p) ==
    IF p = None \/ p[1] = <<>> THEN <<>>
    ELSE SortByNum(Dedup(StepMatches(p[1]), {}))

_get_fallback_steps(name) ==
    << [num |-> 1, name |-> <<"Login">>],
       [num |-> 2, name |-> <<"Navigate">>],
       [num |-> 3, name |-> <<"Execute Task">>],
       [num |-> 4, name |-> <<"Verify Result">>] >>

\* Variant of StepsFor that does not fall back when the prompt declares no step.
StepsForNoFallback(name, p) ==
    IF p # None /\ p[1] # <<>>
    THEN extract_checkpoints_from_prompt(p)
    ELSE _get_fallback_steps(name)

\* The steps get_checkpoints_for_test works on (lines 795-806).
StepsFor(name, p) ==
    IF p # None /\ p[1] # <<>>
    THEN LET steps == extract_checkpoints_from_prompt(p) IN
         IF steps # <<>> THEN steps ELSE _get_fallback_steps(name)
    ELSE _get_fallback_steps(name)

\* Variant of StepStatus with the boundary of the failed step off by one.
StepStatusOffByOne(step_num, passed, last, total_steps) ==
    IF passed THEN "passed"
    ELSE IF last > 0
         THEN IF step_num <= last THEN "passed"
              ELSE IF step_num = last + 1 THEN "failed"
              ELSE "skipped"
    ELSE IF step_num = total_steps THEN "failed"
    ELSE "passed"

\* Variant of StepStatus that looks at last_step before test_passed.
StepStatusLastStepFirst(step_num, passed, last, total_steps) ==
    IF last > 0
    THEN IF step_num < last THEN "passed"
         ELSE IF step_num = last THEN "failed"
         ELSE "skipped"
    ELSE IF passed THEN "passed"
    ELSE IF step_num = total_steps THEN "failed"
    ELSE "passed"

\* The status chosen for one step (lines 812-826).
StepStatus(step_num, passed, last, total_steps) ==
    IF passed THEN "passed"
    ELSE IF last > 0
         THEN IF step_num < last THEN "passed"
              ELSE IF step_num = last THEN "failed"
              ELSE "skipped"
    ELSE IF step_num = total_steps THEN "failed"
    ELSE "passed"

get_checkpoints_for_test(name, passed, last, p) ==
    LET steps == StepsFor(name, p)
        total_steps == Len(steps)
    IN [i \in 1..total_steps |->
           [step |-> steps[i].num,
            name |-> steps[i].name,
            status |-> StepStatus(steps[i].num, passed, last, total_steps)]]

----------------------------------------------------------------------------
(* Inputs of the checkpoint synthesizer *)

StepNames == { <<"Login">>, <<"Nav", ":">> }

PromptLines ==
    [step : {TRUE}, num : 1..MaxStepNum, name : StepNames]
    \cup {[step |-> FALSE, num |-> 0, name |-> <<"text">>]}

Prompts == {None} \cup {Some(t) : t \in SeqsUpTo(PromptLines, MaxPromptLines)}

TestNames == {"test_create_push_campaign", "test_login"}

LastSteps == 0..(MaxStepNum + 1)

\* The session part of the state when no session is running.
NoSession ==
    /\ items = <<>>
    /\ cur = 0
    /\ status = "none"
    /\ _last_prompt = None
    /\ _last_result = None
    /\ results = <<>>

\* The verdict part of the state when no verdict rule is running.
NoVerdict ==
    /\ result = <<>>
    /\ expected = <<>>
    /\ ret = <<>>

\* The notification part of the state when nothing is being sent.
NoNotification ==
    /\ payload = <<>>
    /\ transport = <<>>

\* The clock and the mailbox at the start of a unit.
NoEnvironment ==
    /\ clock = 0
    /\ inbox = <<>>

InitCheckpoints ==
    /\ NoSession
    /\ NoVerdict
    /\ pc = "call"
    /\ test_name \in TestNames
    /\ test_passed \in BOOLEAN
    /\ last_step \in LastSteps
    /\ prompt \in Prompts
    /\ checkpoints = <<>>
    /\ NoNotification
    /\ NoEnvironment

GetCheckpoints ==
    /\ pc = "call"
    /\ checkpoints' = get_checkpoints_for_test(test_name, test_passed, last_step, prompt)
    /\ pc' = "done"
    /\ UNCHANGED <<test_name, test_passed, last_step, prompt>>
    /\ UNCHANGED sessVars
    /\ UNCHANGED vdVars
    /\ UNCHANGED ntVars
    /\ UNCHANGED envVars

NextCheckpoints == GetCheckpoints

SpecCheckpoints == InitCheckpoints /\ [][NextCheckpoints]_vars

----------------------------------------------------------------------------
(* Claims on checkpoint synthesis (SpecCheckpoints) *)

Statuses(cps) == [i \in 1..Len(cps) |-> cps[i].status]

StepNumbers(steps) == [i \in 1..Len(steps) |-> steps[i].num]

CheckpointNumbers(cps) == [i \in 1..Len(cps) |-> cps[i].step]

\* The step declarations of the call: those of the prompt, else the fallback.
Declared == StepsFor(test_name, prompt)

FromPrompt == extract_checkpoints_from_prompt(prompt) # <<>>

\* C1: for a test that did not pass with last_step > 0, every declared step
\* has one checkpoint; steps below last_step are passed, the step equal to
\* last_step is failed, steps above last_step are skipped.
C1_FailedAtLastStep ==
    (pc = "done" /\ ~test_passed /\ last_step > 0) =>
        /\ CheckpointNumbers(checkpoints) = StepNumbers(Declared)
        /\ \A i \in 1..Len(checkpoints) :
             checkpoints[i].status =
                 IF checkpoints[i].step < last_step THEN "passed"
                 ELSE IF checkpoints[i].step = last_step THEN "failed"
                 ELSE "skipped"

\* Steps 1, 2, 3 declared in the prompt, last_step = 2.
C1_Witness ==
    /\ pc = "done" /\ ~test_passed /\ last_step = 2 /\ FromPrompt
    /\ CheckpointNumbers(checkpoints) = <<1, 2, 3>>
    /\ Statuses(checkpoints) = <<"passed", "failed", "skipped">>

\* C2: for a test that did not pass with last_step = 0 and a non-empty
\* declared step set, the final declared step is failed and every other
\* declared step is passed.
C2_FinalStepFailed ==
    (pc = "done" /\ ~test_passed /\ last_step = 0 /\ Declared # <<>>) =>
        /\ Len(checkpoints) = Len(Declared)
        /\ \A i \in 1..Len(checkpoints) :
             checkpoints[i].status =
                 IF i = Len(checkpoints) THEN "failed" ELSE "passed"

\* C3: for a test that passed, every declared step is passed, whatever
\* last_step is.
C3_PassedAllPassed ==
    (pc = "done" /\ test_passed) =>
        /\ CheckpointNumbers(checkpoints) = StepNumbers(Declared)
        /\ \A i \in 1..Len(checkpoints) : checkpoints[i].status = "passed"

\* A passed test whose last_step is a declared step that is not the final one.
C3_Witness ==
    /\ pc = "done" /\ test_passed /\ FromPrompt
    /\ Len(checkpoints) >= 2
    /\ last_step = checkpoints[1].step
    /\ \A i \in 1..Len(checkpoints) : checkpoints[i].status = "passed"

\* C4 (as claimed): a prompt that declares no STEP line gives an empty
\* checkpoint sequence.
C4_EmptyStepsEmptyCheckpoints ==
    (pc = "done" /\ prompt # None /\ ~FromPrompt) => checkpoints = <<>>

\* C4 (amended): when the prompt declares no STEP line, or no prompt is
\* given, the checkpoints are those of the four generic fallback steps
\* 1..4; the checkpoint sequence is never empty.
C4_EmptyStepsFallback ==
    (pc = "done") =>
        /\ checkpoints # <<>>
        /\ ~FromPrompt =>
             /\ CheckpointNumbers(checkpoints) = <<1, 2, 3, 4>>
             /\ [i \in 1..Len(checkpoints) |-> checkpoints[i].name] =
                   << <<"Login">>, <<"Navigate">>, <<"Execute Task">>,
                      <<"Verify Result">> >>

\* A non-empty prompt without any STEP line has been synthesized.
C4_Witness ==
    /\ pc = "done" /\ prompt # None /\ prompt[1] # <<>> /\ ~FromPrompt
    /\ Len(checkpoints) = 4

----------------------------------------------------------------------------
(* core/reporter.py : step mentions of a transcript *)

Digits == <<"0", "1", "2", "3", "4", "5", "6", "7", "8", "9">>

IsDigit(x) == \E d \in 1..10 : Digits[d] = x

DigitVal(x) == (CHOOSE d \in 1..10 : Digits[d] = x) - 1

\* \s* from position i: the first position at or after i that holds no blank.
RECURSIVE SkipSpaces(_, _)
SkipSpaces(t, i) ==
    IF i <= Len(t) /\ IsSpace(t[i]) THEN SkipSpaces(t, i + 1) ELSE i

\* \d+ from position i: the first position at or after i that holds no digit.
RECURSIVE DigitsEnd(_, _)
DigitsEnd(t, i) ==
    IF i <= Len(t) /\ IsDigit(t[i]) THEN DigitsEnd(t, i + 1) ELSE i

\* int() of the digits t[i..j-1].
RECURSIVE IntOf(_, _, _)
IntOf(t, i, j) ==
    IF j <= i THEN 0 ELSE IntOf(t, i, j - 1) * 10 + DigitVal(t[j - 1])

\* The three spellings accepted by (?:STEP|Step|step); no IGNORECASE flag.
StepWords == {"STEP", "Step", "step"}

\* re.findall(r'(?:STEP|Step|step)\s*(\d+)', result) scanning from position i.
RECURSIVE StepMentions(_, _)
StepMentions(t, i) ==
    IF i > Len(t) THEN <<>>
    ELSE IF t[i] \in StepWords
         THEN LET j == SkipSpaces(t, i + 1)
                  k == DigitsEnd(t, j)
              IN IF k > j THEN <<IntOf(t, j, k)>> \o StepMentions(t, k)
                 ELSE StepMentions(t, i + 1)
    ELSE StepMentions(t, i + 1)

\* Variant of extract_last_step_from_result that returns the first mention.
extract_last_step_from_result_first(r) ==
    IF r = None \/ r[1] = <<>> THEN 0
    ELSE LET step_matches == StepMentions(r[1], 1) IN
         IF step_matches # <<>> THEN step_matches[1] ELSE 0

extract_last_step_from_result(r) ==
    IF r = None \/ r[1] = <<>> THEN 0
    ELSE LET step_matches == StepMentions(r[1], 1) IN
         IF step_matches # <<>> THEN step_matches[Len(step_matches)] ELSE 0

----------------------------------------------------------------------------
(* tests/conftest.py, core/browser_agent.py : one test session *)

\* Lines of the task prompts handed to run_task by the tests.
SessionTaskLines == {l \in PromptLines : l.num <= 2 /\ l.name # <<"Login">>}

\* Task prompts handed to run_task by the tests.
SessionTasks == SeqsUpTo(SessionTaskLines, MaxTaskLines)

\* Transcripts returned by the external agent.
SessionResults == SeqsUpTo({"Step", "1", "3"}, 2)

\* str(e) of the exceptions raised by the external agent.
ErrorMessages == { <<"timeout">>, <<"step", " ", "2">> }

InitSession ==
    /\ NoVerdict
    /\ items \in SeqsUpTo(TestNames, MaxTests)
    /\ cur = 1
    /\ pc = IF items = <<>> THEN "finished" ELSE "setup"
    /\ status = "none"
    /\ _last_prompt = None
    /\ _last_result = None
    /\ results = <<>>
    /\ test_name = "none"
    /\ test_passed = FALSE
    /\ last_step = 0
    /\ prompt = None
    /\ checkpoints = <<>>
    /\ NoNotification
    /\ NoEnvironment

\* The browser_agent fixture builds a fresh AdWaveBrowserAgent.
FixtureSetup ==
    /\ pc = "setup"
    /\ _last_prompt' = None
    /\ _last_result' = None
    /\ status' = "none"
    /\ pc' = "call"
    /\ UNCHANGED <<items, cur, results, ckVars>>
    /\ UNCHANGED vdVars
    /\ UNCHANGED ntVars
    /\ UNCHANGED envVars

\* The fixture raises (create_llm: unsupported provider): the call phase
\* of the test is not run.
FixtureSetupRaises ==
    /\ pc = "setup"
    /\ _last_prompt' = None
    /\ _last_result' = None
    /\ status' = "none"
    /\ pc' = "teardown"
    /\ UNCHANGED <<items, cur, results, ckVars>>
    /\ UNCHANGED vdVars
    /\ UNCHANGED ntVars
    /\ UNCHANGED envVars

\* The test body runs its task, the external agent returns and the test
\* asserts its verdict.
RunTaskReturns ==
    /\ pc = "call"
    /\ \E task \in SessionTasks, r \in SessionResults, verdict \in BOOLEAN :
         /\ _last_prompt' = Some(task)
         /\ _last_result' = Some(r)
         /\ status' = IF verdict THEN "passed" ELSE "failed"
    /\ pc' = "report"
    /\ UNCHANGED <<items, cur, results, ckVars>>
    /\ UNCHANGED vdVars
    /\ UNCHANGED ntVars
    /\ UNCHANGED envVars

\* The external agent raises: run_task stores the error text and re-raises.
RunTaskRaises ==
    /\ pc = "call"
    /\ \E task \in SessionTasks, e \in ErrorMessages :
         /\ _last_prompt' = Some(task)
         /\ _last_result' = Some(<<"Error (">> \o e)
    /\ status' = "failed"
    /\ pc' = "report"
    /\ UNCHANGED <<items, cur, results, ckVars>>
    /\ UNCHANGED vdVars
    /\ UNCHANGED ntVars
    /\ UNCHANGED envVars

\* The test body raises before any task is run (config.validate()).
BodyRaises ==
    /\ pc = "call"
    /\ status' = "failed"
    /\ pc' = "report"
    /\ UNCHANGED <<items, cur, _last_prompt, _last_result, results, ckVars>>
    /\ UNCHANGED vdVars
    /\ UNCHANGED ntVars
    /\ UNCHANGED envVars

\* The test body calls pytest.skip: the call report is neither passed nor
\* failed.
BodySkips ==
    /\ pc = "call"
    /\ status' = "error"
    /\ pc' = "report"
    /\ UNCHANGED <<items, cur, _last_prompt, _last_result, results, ckVars>>
    /\ UNCHANGED vdVars
    /\ UNCHANGED ntVars
    /\ UNCHANGED envVars

\* pytest_runtest_makereport for report.when == "call".
MakeReport ==
    /\ pc = "report"
    /\ test_name' = items[cur]
    /\ test_passed' = (status = "passed")
    /\ last_step' = IF _last_result # None /\ _last_result[1] # <<>>
                    THEN extract_last_step_from_result(_last_result)
                    ELSE 0
    /\ prompt' = None
    /\ checkpoints' = get_checkpoints_for_test(test_name', test_passed', last_step', prompt')
    /\ results' = Append(results, [name |-> items[cur],
                                   status |-> status,
                                   checkpoints |-> checkpoints'])
    /\ pc' = "teardown"
    /\ UNCHANGED <<items, cur, status, _last_prompt, _last_result>>
    /\ UNCHANGED vdVars
    /\ UNCHANGED ntVars
    /\ UNCHANGED envVars

\* The seconds pytest_runtest_teardown sleeps before a next item.
CooldownSeconds == 10

\* The variant sleeps whether or not there is a next item.
TeardownAlwaysSleeps ==
    /\ pc = "teardown"
    /\ IF cur < Len(items)
       THEN cur' = cur + 1 /\ pc' = "setup"
       ELSE cur' = cur /\ pc' = "finished"
    /\ clock' = clock + CooldownSeconds
    /\ UNCHANGED <<items, status, _last_prompt, _last_result, results, ckVars>>
    /\ UNCHANGED vdVars
    /\ UNCHANGED ntVars
    /\ UNCHANGED inbox

\* pytest_runtest_teardown: time.sleep(10) when nextitem is not None; the
\* runner then starts the next item, or finishes.  The clock of a session
\* counts the seconds spent in sleeps.
Teardown ==
    /\ pc = "teardown"
    /\ IF cur < Len(items)
       THEN cur' = cur + 1 /\ pc' = "setup" /\ clock' = clock + CooldownSeconds
       ELSE cur' = cur /\ pc' = "finished" /\ clock' = clock
    /\ UNCHANGED <<items, status, _last_prompt, _last_result, results, ckVars>>
    /\ UNCHANGED vdVars
    /\ UNCHANGED ntVars
    /\ UNCHANGED inbox

Next ==
    \/ FixtureSetup
    \/ FixtureSetupRaises
    \/ RunTaskReturns
    \/ RunTaskRaises
    \/ BodyRaises
    \/ BodySkips
    \/ MakeReport
    \/ Teardown

Spec == InitSession /\ [][Next]_vars

----------------------------------------------------------------------------
(* Claims on the report hook (Spec) *)

\* The (number, name) pairs of a checkpoint sequence.
StepsOf(cps) == [i \in 1..Len(cps) |-> [num |-> cps[i].step, name |-> cps[i].name]]

\* C5: for a test that ran a task through run_task, the checkpoints stored
\* in its TestResult are the steps declared in the task's prompt (here: for
\* the prompts that declare at least one step).
C5_CheckpointsAreDeclaredSteps ==
    (/\ pc = "teardown"
     /\ _last_prompt # None
     /\ extract_checkpoints_from_prompt(_last_prompt) # <<>>) =>
        StepsOf(results[Len(results)].checkpoints) =
            extract_checkpoints_from_prompt(_last_prompt)

----------------------------------------------------------------------------
(* Text helpers shared by the verdict rules *)

\* str.lower() of one lexeme: the lexemes written with capitals.
LowerTable ==
    ("CREATIVE_COUNT_BEFORE:" :> "creative_count_before:") @@
    ("CREATIVE_COUNT_AFTER:" :> "creative_count_after:") @@
    ("Deleted" :> "deleted") @@
    ("Removed" :> "removed") @@
    ("Confirmed" :> "confirmed") @@
    ("REGISTRATION_RESULT_START" :> "registration_result_start") @@
    ("REGISTRATION_RESULT_END" :> "registration_result_end") @@
    ("REGISTRATION_SUCCESS:" :> "registration_success:") @@
    ("LOGIN_SUCCESS:" :> "login_success:") @@
    ("Login_Success:" :> "login_success:") @@
    ("TRUE" :> "true") @@
    ("Account Created" :> "account created") @@
    ("Dashboard" :> "dashboard") @@
    ("CAMPAIGN_LIST_START" :> "campaign_list_start") @@
    ("CAMPAIGN_LIST_END" :> "campaign_list_end") @@
    ("AUDIENCE_LIST_START" :> "audience_list_start") @@
    ("AUDIENCE_LIST_END" :> "audience_list_end") @@
    ("Y" :> "y") @@
    ("REGISTRATION_EMAIL:" :> "registration_email:") @@
    ("VERIFICATION_CODE:" :> "verification_code:") @@
    ("REGISTRATION_MESSAGE:" :> "registration_message:") @@
    ("AB12" :> "ab12") @@
    ("RevoSurge" :> "revosurge") @@
    ("X+1" :> "x+1") @@
    ("G" :> "g")

Lower(x) == IF x \in DOMAIN LowerTable THEN LowerTable[x] ELSE x

\* str.lower() of a text.
LowerText(t) == [i \in 1..Len(t) |-> Lower(t[i])]

\* needle in text, for texts as sequences of lexemes.
IsSubstring(needle, t) ==
    \E i \in 0..(Len(t) - Len(needle)) :
        \A j \in 1..Len(needle) : t[i + j] = needle[j]

Min(S) == CHOOSE x \in S : \A y \in S : x <= y

\* re.search(key + r'\s*(\d+)', t): the positions where the pattern matches.
KeyIntMatches(t, key) ==
    {i \in 1..Len(t) :
        /\ t[i] = key
        /\ DigitsEnd(t, SkipSpaces(t, i + 1)) > SkipSpaces(t, i + 1)}

\* int(match.group(1)) if match else -1, for the leftmost match.
SearchKeyInt(t, key) ==
    IF KeyIntMatches(t, key) = {} THEN -1
    ELSE LET i == Min(KeyIntMatches(t, key))
             j == SkipSpaces(t, i + 1)
         IN IntOf(t, j, DigitsEnd(t, j))

----------------------------------------------------------------------------
(* tests/creative_helpers.py, tests/test_creative_delete.py *)

extract_creative_counts(r) ==
    LET result_lower == LowerText(r) IN
    [before_count |-> SearchKeyInt(result_lower, "creative_count_before:"),
     after_count |-> SearchKeyInt(result_lower, "creative_count_after:")]

\* Variant of verify_creative_upload that accepts an equal count.
verify_creative_upload_ge(r) ==
    LET c == extract_creative_counts(r) IN
    IF c.before_count < 0 \/ c.after_count < 0 THEN FALSE
    ELSE c.after_count >= c.before_count

verify_creative_upload(r) ==
    LET c == extract_creative_counts(r) IN
    IF c.before_count < 0 \/ c.after_count < 0 THEN FALSE
    ELSE c.after_count > c.before_count

DeleteKeywords == {"deleted", "removed", "confirmed"}

\* Variant of delete_success without the keyword fallback.
delete_success_strict(r) ==
    LET c == extract_creative_counts(r) IN
    IF c.before_count >= 0 /\ c.after_count >= 0
    THEN c.after_count < c.before_count
    ELSE FALSE

\* The verdict computed in the body of test_delete_creatives.
delete_success(r) ==
    LET c == extract_creative_counts(r) IN
    IF c.before_count >= 0 /\ c.after_count >= 0
    THEN c.after_count < c.before_count
    ELSE LET result_lower == LowerText(r) IN
         \E kw \in DeleteKeywords : IsSubstring(<<kw>>, result_lower)

\* Lexemes of the transcripts of the creative tasks.
CreativeLexemes ==
    {"CREATIVE_COUNT_BEFORE:", "creative_count_after:", " ", "2", "5", "Deleted"}

InitCreative ==
    /\ NoSession
    /\ pc = "call"
    /\ test_name = "none"
    /\ test_passed = FALSE
    /\ last_step = 0
    /\ prompt = None
    /\ checkpoints = <<>>
    /\ result \in SeqsUpTo(CreativeLexemes, MaxCreativeLen)
    /\ expected = <<>>
    /\ ret = <<>>
    /\ NoNotification
    /\ NoEnvironment

\* The verdict of test_upload_creative / test_upload_push_creative.
VerifyUpload ==
    /\ pc = "call"
    /\ ret' = [before_count |-> extract_creative_counts(result).before_count,
               after_count |-> extract_creative_counts(result).after_count,
               success |-> verify_creative_upload(result)]
    /\ pc' = "upload_done"
    /\ UNCHANGED <<result, expected, ckVars, sessVars>>
    /\ UNCHANGED ntVars
    /\ UNCHANGED envVars

\* The verdict of test_delete_creatives.
VerifyDelete ==
    /\ pc = "call"
    /\ ret' = [before_count |-> extract_creative_counts(result).before_count,
               after_count |-> extract_creative_counts(result).after_count,
               success |-> delete_success(result)]
    /\ pc' = "delete_done"
    /\ UNCHANGED <<result, expected, ckVars, sessVars>>
    /\ UNCHANGED ntVars
    /\ UNCHANGED envVars

NextCreative == VerifyUpload \/ VerifyDelete

SpecCreative == InitCreative /\ [][NextCreative]_vars

----------------------------------------------------------------------------
(* Claims on the count-delta verdicts (SpecCreative) *)

\* The transcript holds the key (in any letter case), optional blanks and
\* at least one digit.
HasCount(t, key) ==
    \E i \in 1..Len(t) :
        /\ Lower(t[i]) = key
        /\ \E j \in (i + 1)..Len(t) :
             /\ IsDigit(t[j])
             /\ \A k \in (i + 1)..(j - 1) : IsSpace(t[k])

HasBothCounts(t) ==
    HasCount(t, "creative_count_before:") /\ HasCount(t, "creative_count_after:")

HasDeleteKeyword(t) == \E i \in 1..Len(t) : Lower(t[i]) \in DeleteKeywords

\* C6: the upload verdict is true iff both counts are extracted and
\* after > before; a missing count is reported as -1 and makes the verdict
\* false whatever else the transcript holds.
C6_UploadIffCountIncrease ==
    (pc = "upload_done") =>
        /\ ret.success = (HasBothCounts(result) /\ ret.after_count > ret.before_count)
        /\ (ret.before_count = -1) = ~HasCount(result, "creative_count_before:")
        /\ (ret.after_count = -1) = ~HasCount(result, "creative_count_after:")
        /\ (ret.before_count = -1 \/ ret.after_count = -1) => ~ret.success

\* before = 2, after = 5: the upload verdict is true.
C6_Witness ==
    /\ pc = "upload_done"
    /\ ret.before_count = 2 /\ ret.after_count = 5 /\ ret.success

\* C7 (as claimed): the deletion verdict is false whenever a count is missing.
C7_DeleteFailsWithoutCounts ==
    (pc = "delete_done" /\ ~HasBothCounts(result)) => ~ret.success

\* C7 (amended): when a count is missing the deletion verdict is true iff
\* the transcript holds one of the keywords deleted, removed, confirmed;
\* when both counts are present it is true iff after < before.
C7_DeleteKeywordFallback ==
    (pc = "delete_done") =>
        ret.success = IF HasBothCounts(result)
                      THEN ret.after_count < ret.before_count
                      ELSE HasDeleteKeyword(result)

\* A transcript with the before count only and a keyword passes.
C7_Witness ==
    /\ pc = "delete_done"
    /\ ret.before_count >= 0 /\ ret.after_count = -1
    /\ HasDeleteKeyword(result) /\ ret.success

----------------------------------------------------------------------------
(* tests/registration_helpers.py *)

\* re.search(r'REGISTRATION_RESULT_START\s*(.*?)\s*REGISTRATION_RESULT_END',
\* result, re.DOTALL | re.IGNORECASE): the start positions that are followed
\* by an end marker.
BlockStarts(r) ==
    {i \in 1..Len(r) :
        /\ Lower(r[i]) = "registration_result_start"
        /\ \E j \in (i + 1)..Len(r) : Lower(r[j]) = "registration_result_end"}

\* result_block.group(1).lower() as an Optional text: the leftmost start,
\* the first end marker after it, surrounding blanks dropped.
BlockContent(r) ==
    IF BlockStarts(r) = {} THEN None
    ELSE LET i == Min(BlockStarts(r))
             j == Min({k \in (i + 1)..Len(r) : Lower(r[k]) = "registration_result_end"})
         IN Some(LowerText(Strip(SubSeq(r, i + 1, j - 1))))

\* "key: true" in block_content or "key:true" in block_content
BlockSaysTrue(block_content, key) ==
    \/ IsSubstring(<<key, " ", "true">>, block_content)
    \/ IsSubstring(<<key, "true">>, block_content)

\* re.search(key + r'\s*(true|false)', result.lower()): match positions.
KeyBoolMatches(t, key) ==
    {i \in 1..Len(t) :
        /\ t[i] = key
        /\ SkipSpaces(t, i + 1) <= Len(t)
        /\ t[SkipSpaces(t, i + 1)] \in {"true", "false"}}

\* match.group(1) of the leftmost match, as an Optional.
SearchKeyBool(t, key) ==
    IF KeyBoolMatches(t, key) = {} THEN None
    ELSE Some(t[SkipSpaces(t, Min(KeyBoolMatches(t, key)) + 1)])

success_indicators ==
    {"/campaign", "dashboard", "welcome", "logged in", "login successful",
     "campaign list", "link your first product",
     "unlock the power of adwave", "registration and login successful"}

success_keywords ==
    {"it is all set", "registration completed", "successfully registered",
     "registration complete", "account created", "let's start your journey"}

failure_keywords ==
    {"failed to receive verification", "registration failed", "invalid",
     "already exists", "email taken", "error occurred"}

\* any(kw in text for kw in kws)
HasAny(kws, t) == \E kw \in kws : IsSubstring(<<kw>>, t)

\* The pattern of the standalone marker is written in capitals and searched
\* in result.lower() without re.IGNORECASE.
verify_login_success(r) ==
    LET result_block == BlockContent(r)
        login_match == SearchKeyBool(LowerText(r), "LOGIN_SUCCESS:")
    IN IF result_block # None /\ BlockSaysTrue(result_block[1], "login_success:")
       THEN TRUE
       ELSE IF login_match # None THEN login_match[1] = "true"
       ELSE HasAny(success_indicators, LowerText(r))

\* Variant that trusts a success keyword on its own.
verify_registration_success_keyword_only(r) ==
    LET result_block == BlockContent(r)
        success_match == SearchKeyBool(LowerText(r), "REGISTRATION_SUCCESS:")
    IN IF /\ result_block # None
          /\ BlockSaysTrue(result_block[1], "registration_success:")
          /\ BlockSaysTrue(result_block[1], "login_success:")
       THEN TRUE
       ELSE IF success_match # None
            THEN IF success_match[1] = "true" THEN verify_login_success(r) ELSE FALSE
       ELSE IF HasAny(success_keywords, LowerText(r)) THEN TRUE
       ELSE FALSE

\* Variant that takes a successful login as confirmation when no success
\* keyword is found.
verify_registration_success_login_confirms(r) ==
    LET result_block == BlockContent(r)
        success_match == SearchKeyBool(LowerText(r), "REGISTRATION_SUCCESS:")
    IN IF /\ result_block # None
          /\ BlockSaysTrue(result_block[1], "registration_success:")
          /\ BlockSaysTrue(result_block[1], "login_success:")
       THEN TRUE
       ELSE IF success_match # None
            THEN IF success_match[1] = "true" THEN verify_login_success(r) ELSE FALSE
       ELSE verify_login_success(r)

\* The pattern of the standalone marker is written in capitals and searched
\* in result.lower() without re.IGNORECASE.
verify_registration_success(r) ==
    LET result_block == BlockContent(r)
        success_match == SearchKeyBool(LowerText(r), "REGISTRATION_SUCCESS:")
    IN IF /\ result_block # None
          /\ BlockSaysTrue(result_block[1], "registration_success:")
          /\ BlockSaysTrue(result_block[1], "login_success:")
       THEN TRUE
       ELSE IF success_match # None
            THEN IF success_match[1] = "true" THEN verify_login_success(r) ELSE FALSE
       ELSE IF HasAny(success_keywords, LowerText(r)) THEN verify_login_success(r)
       ELSE IF HasAny(failure_keywords, LowerText(r)) THEN FALSE
       ELSE FALSE

\* Phrases of the transcripts of the registration task.
RegPhrases ==
    { <<"REGISTRATION_RESULT_START">>,
      <<"REGISTRATION_RESULT_END">>,
      <<"REGISTRATION_SUCCESS:", " ", "true">>,
      <<"REGISTRATION_SUCCESS:", " ", "false">>,
      <<"LOGIN_SUCCESS:", " ", "true">>,
      <<"LOGIN_SUCCESS:", " ", "false">>,
      <<"Login_Success:", "TRUE">>,
      <<"login_success:", " ", " ", "true">>,
      <<"Dashboard">>,
      <<"Account Created">>,
      <<"invalid">> }

RECURSIVE Flatten(_)
Flatten(ps) == IF ps = <<>> THEN <<>> ELSE Head(ps) \o Flatten(Tail(ps))

InitRegistration ==
    /\ NoSession
    /\ pc = "call"
    /\ test_name = "none"
    /\ test_passed = FALSE
    /\ last_step = 0
    /\ prompt = None
    /\ checkpoints = <<>>
    /\ result \in {Flatten(ps) : ps \in SeqsUpTo(RegPhrases, MaxRegPhrases)}
    /\ expected = <<>>
    /\ ret = <<>>
    /\ NoNotification
    /\ NoEnvironment

GetRegistrationSummary ==
    /\ pc = "call"
    /\ ret' = [registration_success |-> verify_registration_success(result),
               login_success |-> verify_login_success(result)]
    /\ pc' = "done"
    /\ UNCHANGED <<result, expected, ckVars, sessVars>>
    /\ UNCHANGED ntVars
    /\ UNCHANGED envVars

NextRegistration == GetRegistrationSummary

SpecRegistration == InitRegistration /\ [][NextRegistration]_vars

----------------------------------------------------------------------------
(* Claims on the registration verdict (SpecRegistration) *)

\* The transcript holds the key (any letter case) followed, after optional
\* blanks, by the value (any letter case).
HasKeyValue(t, key, val) ==
    \E i \in 1..Len(t) :
        /\ Lower(t[i]) = key
        /\ \E j \in (i + 1)..Len(t) :
             /\ Lower(t[j]) = val
             /\ \A k \in (i + 1)..(j - 1) : IsSpace(t[k])

HasKeyLine(t, key) == HasKeyValue(t, key, "true") \/ HasKeyValue(t, key, "false")

HasKeyword(t, kws) == \E i \in 1..Len(t) : Lower(t[i]) \in kws

HasBlock(t) ==
    \E i, j \in 1..Len(t) :
        /\ i < j
        /\ Lower(t[i]) = "registration_result_start"
        /\ Lower(t[j]) = "registration_result_end"

\* C8: a true registration verdict implies a true login verdict; a transcript
\* with REGISTRATION_SUCCESS: true, no LOGIN_SUCCESS marker and no login
\* indicator gets registration verdict false.
C8_RegistrationRequiresLogin ==
    (pc = "done") =>
        /\ ret.registration_success => ret.login_success
        /\ (/\ HasKeyValue(result, "registration_success:", "true")
            /\ ~HasKeyLine(result, "login_success:")
            /\ ~HasKeyword(result, success_indicators))
           => ~ret.registration_success

\* REGISTRATION_SUCCESS: true alone: the registration verdict is false.
C8_Witness ==
    /\ pc = "done"
    /\ result = <<"REGISTRATION_SUCCESS:", " ", "true">>
    /\ ~ret.registration_success

\* The keyword-fallback stage: no result block, no REGISTRATION_SUCCESS line.
FallbackStage ==
    /\ pc = "done"
    /\ ~HasBlock(result)
    /\ ~HasKeyLine(result, "registration_success:")

\* C9 (as claimed): in the keyword-fallback stage a failure keyword forces
\* the verdict false, whichever positive keywords are present.
C9_FailureKeywordForcesFalse ==
    (FallbackStage /\ HasKeyword(result, failure_keywords)) =>
        ~ret.registration_success

\* C9 (amended): in the keyword-fallback stage a transcript with a failure
\* keyword and no success keyword gets verdict false; when a success keyword
\* is present the verdict is the login verdict, failure keyword or not.
C9_FailureKeywordWithoutSuccessKeyword ==
    FallbackStage =>
        /\ (HasKeyword(result, failure_keywords) /\ ~HasKeyword(result, success_keywords))
             => ~ret.registration_success
        /\ HasKeyword(result, success_keywords)
             => (ret.registration_success = ret.login_success)

\* A success keyword, a failure keyword and a login indicator: verdict true.
C9_Witness ==
    /\ FallbackStage
    /\ HasKeyword(result, failure_keywords)
    /\ HasKeyword(result, success_keywords)
    /\ ret.registration_success

----------------------------------------------------------------------------
(* tests/campaign_helpers.py, tests/test_audience_create.py *)

\* re.search(start + r'\s*(.*?)\s*' + end, result_lower, re.DOTALL): the
\* start positions that are followed by an end marker.
ListBlockStarts(t, start, end) ==
    {i \in 1..Len(t) : t[i] = start /\ \E j \in (i + 1)..Len(t) : t[j] = end}

\* match.group(1): from the leftmost start to the first end marker after it.
ListBlockContent(t, start, end) ==
    LET i == Min(ListBlockStarts(t, start, end))
        j == Min({k \in (i + 1)..Len(t) : t[k] = end})
    IN SubSeq(t, i + 1, j - 1)

\* str.split('\n')
RECURSIVE SplitLines(_)
SplitLines(t) ==
    IF \A i \in 1..Len(t) : t[i] # "\n" THEN <<t>>
    ELSE LET n == Min({i \in 1..Len(t) : t[i] = "\n"}) IN
         <<SubSeq(t, 1, n - 1)>> \o SplitLines(SubSeq(t, n + 1, Len(t)))

\* [name.strip() for name in lines if name.strip()]
RECURSIVE StripNonEmpty(_)
StripNonEmpty(lines) ==
    IF lines = <<>> THEN <<>>
    ELSE IF Strip(Head(lines)) # <<>>
         THEN <<Strip(Head(lines))>> \o StripNonEmpty(Tail(lines))
         ELSE StripNonEmpty(Tail(lines))

\* Variant of extract_campaign_list that returns the lines in the letter case
\* of the transcript.
extract_campaign_list_as_written(r) ==
    LET result_lower == LowerText(r) IN
    IF ListBlockStarts(result_lower, "campaign_list_start", "campaign_list_end") # {}
    THEN LET i == Min(ListBlockStarts(result_lower, "campaign_list_start",
                                      "campaign_list_end"))
             j == Min({k \in (i + 1)..Len(r) : result_lower[k] = "campaign_list_end"})
         IN StripNonEmpty(SplitLines(Strip(SubSeq(r, i + 1, j - 1))))
    ELSE <<>>

\* Variant of extract_campaign_list that captures up to the end of the
\* transcript when no end marker follows the start marker.
extract_campaign_list_to_eof(r) ==
    LET result_lower == LowerText(r) IN
    IF ListBlockStarts(result_lower, "campaign_list_start", "campaign_list_end") # {}
    THEN StripNonEmpty(SplitLines(Strip(
             ListBlockContent(result_lower, "campaign_list_start", "campaign_list_end"))))
    ELSE IF \E i \in 1..Len(r) : result_lower[i] = "campaign_list_start"
    THEN LET i == Min({k \in 1..Len(r) : result_lower[k] = "campaign_list_start"})
         IN StripNonEmpty(SplitLines(Strip(SubSeq(result_lower, i + 1, Len(r)))))
    ELSE <<>>

extract_campaign_list(r) ==
    LET result_lower == LowerText(r) IN
    IF ListBlockStarts(result_lower, "campaign_list_start", "campaign_list_end") # {}
    THEN StripNonEmpty(SplitLines(Strip(
             ListBlockContent(result_lower, "campaign_list_start", "campaign_list_end"))))
    ELSE <<>>

extract_audience_list(r) ==
    LET result_lower == LowerText(r) IN
    IF ListBlockStarts(result_lower, "audience_list_start", "audience_list_end") # {}
    THEN StripNonEmpty(SplitLines(Strip(
             ListBlockContent(result_lower, "audience_list_start", "audience_list_end"))))
    ELSE <<>>

\* The for loop over the extracted list: True at the first entry that holds
\* the name or is held by it.
RECURSIVE AnyEntryMatches(_, _)
AnyEntryMatches(list, name_lower) ==
    IF list = <<>> THEN FALSE
    ELSE IF IsSubstring(name_lower, Head(list)) \/ IsSubstring(Head(list), name_lower)
         THEN TRUE
         ELSE AnyEntryMatches(Tail(list), name_lower)

\* Variant of AnyEntryMatches that only looks for the name inside an entry.
RECURSIVE AnyEntryHoldsName(_, _)
AnyEntryHoldsName(list, name_lower) ==
    IF list = <<>> THEN FALSE
    ELSE IF IsSubstring(name_lower, Head(list)) THEN TRUE
    ELSE AnyEntryHoldsName(Tail(list), name_lower)

\* Variant of verify_audience_in_list matching in one direction only.
verify_audience_in_list_one_way(r, audience_name) ==
    LET audience_list == extract_audience_list(r)
        audience_name_lower == LowerText(audience_name)
    IN IF AnyEntryHoldsName(audience_list, audience_name_lower) THEN TRUE
       ELSE IsSubstring(audience_name_lower, LowerText(r))

verify_campaign_in_list(r, campaign_name) ==
    LET campaign_list == extract_campaign_list(r)
        campaign_name_lower == LowerText(campaign_name)
    IN IF AnyEntryMatches(campaign_list, campaign_name_lower) THEN TRUE
       ELSE IsSubstring(campaign_name_lower, LowerText(r))

verify_audience_in_list(r, audience_name) ==
    LET audience_list == extract_audience_list(r)
        audience_name_lower == LowerText(audience_name)
    IN IF AnyEntryMatches(audience_list, audience_name_lower) THEN TRUE
       ELSE IsSubstring(audience_name_lower, LowerText(r))

\* Lexemes of the transcripts of the list tasks; the markers are written
\* for the campaign list and renamed for the audience list.
ListLexemes == {"CAMPAIGN_LIST_START", "campaign_list_end", "\n", "x", "Y", "..."}

AudienceTable ==
    ("CAMPAIGN_LIST_START" :> "AUDIENCE_LIST_START") @@
    ("campaign_list_end" :> "audience_list_end")

\* The transcript of the same page listing audiences instead of campaigns.
AsAudience(t) ==
    [i \in 1..Len(t) |->
        IF t[i] \in DOMAIN AudienceTable THEN AudienceTable[t[i]] ELSE t[i]]

\* Names given to the created campaign or audience: a timestamp, which
\* lower() leaves as it is, followed by a suffix of either letter case.
ExpectedNames == {n \in SeqsUpTo({"x", "Y"}, MaxNameLen) : n # <<>> /\ n[1] = "x"}

InitList ==
    /\ NoSession
    /\ pc = "call"
    /\ test_name = "none"
    /\ test_passed = FALSE
    /\ last_step = 0
    /\ prompt = None
    /\ checkpoints = <<>>
    /\ \E t \in SeqsUpTo(ListLexemes, MaxListLen) : result \in {t, AsAudience(t)}
    /\ expected \in ExpectedNames
    /\ ret = <<>>
    /\ NoNotification
    /\ NoEnvironment

\* The verdict of test_create_push_campaign / test_create_pop_campaign.
VerifyCampaign ==
    /\ pc = "call"
    /\ ret' = [list |-> extract_campaign_list(result),
               found |-> verify_campaign_in_list(result, expected)]
    /\ pc' = "campaign_done"
    /\ UNCHANGED <<result, expected, ckVars, sessVars>>
    /\ UNCHANGED ntVars
    /\ UNCHANGED envVars

\* The verdict of test_create_audience.
VerifyAudience ==
    /\ pc = "call"
    /\ ret' = [list |-> extract_audience_list(result),
               found |-> verify_audience_in_list(result, expected)]
    /\ pc' = "audience_done"
    /\ UNCHANGED <<result, expected, ckVars, sessVars>>
    /\ UNCHANGED ntVars
    /\ UNCHANGED envVars

NextList == VerifyCampaign \/ VerifyAudience

SpecList == InitList /\ [][NextList]_vars

----------------------------------------------------------------------------
(* Claims on the list-membership verdict (SpecList) *)

\* (a) the lowercased expected name is a substring of some extracted entry.
NameInSomeEntry ==
    \E i \in 1..Len(ret.list) : IsSubstring(LowerText(expected), ret.list[i])

\* (b) some extracted entry is a substring of the lowercased expected name.
SomeEntryInName ==
    \E i \in 1..Len(ret.list) : IsSubstring(ret.list[i], LowerText(expected))

\* (c) the lowercased expected name occurs in the lowercased transcript.
NameInTranscript == IsSubstring(LowerText(expected), LowerText(result))

\* C10: the campaign and the audience list-membership verdicts are true
\* exactly when (a) or (b) or (c) holds for the list extracted with their
\* own markers.
C10_FoundIffABC ==
    (pc \in {"campaign_done", "audience_done"}) =>
        ret.found = (NameInSomeEntry \/ SomeEntryInName \/ NameInTranscript)

\* An audience found by rule (b) alone: an entry is a cut-short form of the
\* expected name.
C10_Witness ==
    /\ pc = "audience_done"
    /\ ret.found
    /\ SomeEntryInName /\ ~NameInSomeEntry /\ ~NameInTranscript

----------------------------------------------------------------------------
(* Claims on truncated names and on list-block extraction (SpecList) *)

\* Some extracted entry is the expected name cut short and followed by the
\* ellipsis the list cell shows.
EntryIsNameCutShort ==
    \E i \in 1..Len(ret.list) : \E k \in 1..(Len(expected) - 1) :
        ret.list[i] = SubSeq(LowerText(expected), 1, k) \o <<"...">>

\* The expected name is a cut-short form (a proper prefix) of some entry.
NameIsEntryCutShort ==
    \E i \in 1..Len(ret.list) :
        /\ Len(expected) < Len(ret.list[i])
        /\ SubSeq(ret.list[i], 1, Len(expected)) = LowerText(expected)

\* C11: the list-membership verdict is true when an entry is the expected
\* name cut short with a trailing "..." while the full name occurs nowhere in
\* the transcript, and true when the expected name is a cut-short form of an
\* entry.
C11_TruncationTolerated ==
    (pc \in {"campaign_done", "audience_done"}) =>
        /\ (EntryIsNameCutShort /\ ~NameInTranscript) => ret.found
        /\ NameIsEntryCutShort => ret.found

\* The marker names of the verdict that has run.
StartMarker ==
    IF pc = "campaign_done" THEN "campaign_list_start" ELSE "audience_list_start"

EndMarker ==
    IF pc = "campaign_done" THEN "campaign_list_end" ELSE "audience_list_end"

\* The transcript holds a start marker, in any letter case, that is followed
\* by an end marker, in any letter case.
WellFormedBlock == ListBlockStarts(LowerText(result), StartMarker, EndMarker) # {}

\* The item lines of the block in the letter case of the transcript: the
\* lines between the leftmost start marker and the first end marker after it,
\* trimmed, without the empty ones.
ItemsAsWritten ==
    LET low == LowerText(result)
        i == Min(ListBlockStarts(low, StartMarker, EndMarker))
        j == Min({k \in (i + 1)..Len(low) : low[k] = EndMarker})
    IN StripNonEmpty(SplitLines(SubSeq(result, i + 1, j - 1)))

\* C12: for a well-formed block, whatever the letter case of its markers,
\* extraction returns exactly the item lines as written in the transcript,
\* trimmed, empty lines dropped, in their order.
C12_ItemsAsWritten ==
    (pc \in {"campaign_done", "audience_done"} /\ WellFormedBlock) =>
        ret.list = ItemsAsWritten

\* C12 (amended): extraction returns the item lines converted to lower case,
\* trimmed, empty lines dropped, in their order.
C12_ItemsLowercased ==
    (pc \in {"campaign_done", "audience_done"} /\ WellFormedBlock) =>
        /\ Len(ret.list) = Len(ItemsAsWritten)
        /\ \A i \in 1..Len(ret.list) : ret.list[i] = LowerText(ItemsAsWritten[i])

\* A block under an upper-case start marker with two item lines, one of them
\* written in capitals, separated by a newline.
C12_Witness ==
    /\ pc = "campaign_done" /\ WellFormedBlock
    /\ "CAMPAIGN_LIST_START" \in Range(result)
    /\ Len(ItemsAsWritten) = 2
    /\ <<"Y">> \in Range(ItemsAsWritten)
    /\ ret.list # ItemsAsWritten

\* The transcript holds the start marker and no end marker after any of its
\* occurrences.
StartWithoutEnd ==
    /\ StartMarker \in Range(LowerText(result))
    /\ ~WellFormedBlock

\* C13: extraction on a transcript with the start marker and no end marker
\* after it returns the empty sequence.
C13_MissingEndGivesEmpty ==
    (pc \in {"campaign_done", "audience_done"} /\ StartWithoutEnd) =>
        ret.list = <<>>

\* Item lines follow a start marker that is never closed; an end marker
\* stands before it.
C13_Witness ==
    /\ pc = "campaign_done" /\ StartWithoutEnd
    /\ \E i \in 1..Len(result) : \E j \in (i + 1)..Len(result) :
          /\ LowerText(result)[i] = "campaign_list_end"
          /\ LowerText(result)[j] = "campaign_list_start"
          /\ j < Len(result) /\ result[Len(result)] = "x"
    /\ ret.list = <<>>

----------------------------------------------------------------------------
(* tests/registration_helpers.py : key-value markers with a string value *)

\* \S+ from position i: the first position at or after i that holds whitespace.
RECURSIVE NonSpaceEnd(_, _)
NonSpaceEnd(t, i) ==
    IF i <= Len(t) /\ ~IsSpace(t[i]) THEN NonSpaceEnd(t, i + 1) ELSE i

\* The lexemes that hold the character '@' between two other characters.
HasAt(x) == x = "a@b"

\* re.search(r'REGISTRATION_EMAIL:\s*(\S+@\S+)', result): the positions of the
\* key that are followed, after optional whitespace, by a run of
\* non-whitespace holding an '@'.  The key is matched in capitals only.
EmailMatches(t) ==
    {i \in 1..Len(t) :
        /\ t[i] = "REGISTRATION_EMAIL:"
        /\ LET j == SkipSpaces(t, i + 1) IN
           \E m \in j..(NonSpaceEnd(t, j) - 1) : HasAt(t[m])}

extract_registration_email(r) ==
    IF EmailMatches(r) = {} THEN <<>>
    ELSE LET i == Min(EmailMatches(r))
             j == SkipSpaces(r, i + 1)
         IN SubSeq(r, j, NonSpaceEnd(r, j) - 1)

\* The leading characters of a lexeme that are in [A-Za-z0-9].
AlnumPrefix ==
    ("REGISTRATION_EMAIL:" :> <<"R", "E", "G", "I", "S", "T", "R", "A", "T", "I", "O", "N">>) @@
    ("registration_email:" :> <<"r", "e", "g", "i", "s", "t", "r", "a", "t", "i", "o", "n">>) @@
    ("VERIFICATION_CODE:" :> <<"V", "E", "R", "I", "F", "I", "C", "A", "T", "I", "O", "N">>) @@
    ("verification_code:" :> <<"v", "e", "r", "i", "f", "i", "c", "a", "t", "i", "o", "n">>) @@
    ("REGISTRATION_MESSAGE:" :> <<"R", "E", "G", "I", "S", "T", "R", "A", "T", "I", "O", "N">>) @@
    ("registration_message:" :> <<"r", "e", "g", "i", "s", "t", "r", "a", "t", "i", "o", "n">>) @@
    ("CREATIVE_COUNT_BEFORE:" :> <<"C", "R", "E", "A", "T", "I", "V", "E">>) @@
    ("creative_count_before:" :> <<"c", "r", "e", "a", "t", "i", "v", "e">>) @@
    ("a@b" :> <<"a">>) @@
    ("AB12" :> <<"A", "B", "1", "2">>) @@
    ("ok" :> <<"o", "k">>) @@
    ("5" :> <<"5">>)

\* The lexemes made of characters of [A-Za-z0-9] only.
AlnumLexemes == {"AB12", "ok", "5"}

\* The characters of [A-Za-z0-9] that follow each other from position i.
RECURSIVE AlnumRun(_, _)
AlnumRun(t, i) ==
    IF i > Len(t) \/ t[i] \notin DOMAIN AlnumPrefix THEN <<>>
    ELSE IF t[i] \in AlnumLexemes THEN AlnumPrefix[t[i]] \o AlnumRun(t, i + 1)
    ELSE AlnumPrefix[t[i]]

\* re.search(r'VERIFICATION_CODE:\s*([A-Za-z0-9]{4,8})', result): the
\* positions of the key that are followed by at least four such characters.
CodeMatches(t) ==
    {i \in 1..Len(t) :
        /\ t[i] = "VERIFICATION_CODE:"
        /\ Len(AlnumRun(t, SkipSpaces(t, i + 1))) >= 4}

\* match.group(1): at most eight characters, as a sequence of characters.
extract_verification_code(r) ==
    IF CodeMatches(r) = {} THEN <<>>
    ELSE LET run == AlnumRun(r, SkipSpaces(r, Min(CodeMatches(r)) + 1))
         IN SubSeq(run, 1, IF Len(run) < 8 THEN Len(run) ELSE 8)

\* (.+?)(?:\n|$) from position i: the first position at or after i that
\* holds a newline.
RECURSIVE LineEnd(_, _)
LineEnd(t, i) ==
    IF i <= Len(t) /\ t[i] # "\n" THEN LineEnd(t, i + 1) ELSE i

\* re.search(r'REGISTRATION_MESSAGE:\s*(.+?)(?:\n|$)', result) and
\* match.group(1).strip().  When only whitespace follows the key the match,
\* if there is one, captures blanks and the value is the empty string.
extract_registration_message(r) ==
    IF \A i \in 1..Len(r) : r[i] # "REGISTRATION_MESSAGE:" THEN <<>>
    ELSE LET i == Min({k \in 1..Len(r) : r[k] = "REGISTRATION_MESSAGE:"})
             j == SkipSpaces(r, i + 1)
         IN IF j > Len(r) THEN <<>>
            ELSE Strip(SubSeq(r, j, LineEnd(r, j) - 1))

\* The values the key-value markers of a transcript give.
KeyValues(r) ==
    [email |-> extract_registration_email(r),
     code |-> extract_verification_code(r),
     message |-> extract_registration_message(r),
     counts |-> extract_creative_counts(r)]

MaxKeyValueLen == 3

\* Keys in the letter case the prompts ask for and in lower case, values,
\* blanks and newlines.
UpperKeys ==
    {"REGISTRATION_EMAIL:", "VERIFICATION_CODE:", "REGISTRATION_MESSAGE:",
     "CREATIVE_COUNT_BEFORE:"}

LowerKeys == {Lower(k) : k \in UpperKeys}

KeyValueLexemes == UpperKeys \cup LowerKeys \cup {"a@b", "AB12", "ok", "5", " ", "\n"}

InitKeyValue ==
    /\ NoSession
    /\ pc = "call"
    /\ test_name = "none"
    /\ test_passed = FALSE
    /\ last_step = 0
    /\ prompt = None
    /\ checkpoints = <<>>
    /\ result \in SeqsUpTo(KeyValueLexemes, MaxKeyValueLen)
    /\ expected = <<>>
    /\ ret = <<>>
    /\ NoNotification
    /\ NoEnvironment

\* The extractions a registration or creative test runs on the transcript.
ParseKeyValues ==
    /\ pc = "call"
    /\ ret' = KeyValues(result)
    /\ pc' = "keyvalue_done"
    /\ UNCHANGED <<result, expected, ckVars, sessVars>>
    /\ UNCHANGED ntVars
    /\ UNCHANGED envVars

NextKeyValue == ParseKeyValues

SpecKeyValue == InitKeyValue /\ [][NextKeyValue]_vars

----------------------------------------------------------------------------
(* Claims on key-value markers (SpecKeyValue) *)

\* The transcript with every key written in lower case / in capitals.
KeysLower(t) == [i \in 1..Len(t) |-> IF t[i] \in UpperKeys THEN Lower(t[i]) ELSE t[i]]

KeysUpper(t) ==
    [i \in 1..Len(t) |->
        IF t[i] \in LowerKeys THEN CHOOSE k \in UpperKeys : Lower(k) = t[i]
        ELSE t[i]]

\* C14: changing the letter case of the keys of a transcript never changes
\* the extracted values.
C14_KeyCaseInsensitive ==
    (pc = "keyvalue_done") =>
        /\ ret = KeyValues(KeysLower(result))
        /\ ret = KeyValues(KeysUpper(result))

----------------------------------------------------------------------------
(* core/reporter.py : extract_checkpoints_from_prompt on its own *)

InitPrompt ==
    /\ NoSession
    /\ NoVerdict
    /\ pc = "call"
    /\ test_name = "none"
    /\ test_passed = FALSE
    /\ last_step = 0
    /\ prompt \in Prompts
    /\ checkpoints = <<>>
    /\ NoNotification
    /\ NoEnvironment

\* steps = extract_checkpoints_from_prompt(prompt)
ExtractCheckpoints ==
    /\ pc = "call"
    /\ ret' = extract_checkpoints_from_prompt(prompt)
    /\ pc' = "extracted"
    /\ UNCHANGED <<result, expected, ckVars, sessVars>>
    /\ UNCHANGED ntVars
    /\ UNCHANGED envVars

NextPrompt == ExtractCheckpoints

SpecPrompt == InitPrompt /\ [][NextPrompt]_vars

\* The first line of the prompt that declares step n.
FirstDeclaration(n) ==
    Min({k \in 1..Len(prompt[1]) : prompt[1][k].step /\ prompt[1][k].num = n})

\* C15: the extracted step numbers are strictly increasing (hence unique),
\* and each step carries the cleaned name of the first line of the prompt
\* that declares its number.
C15_UniqueIncreasingFirstName ==
    (pc = "extracted") =>
        /\ \A i \in 1..(Len(ret) - 1) : ret[i].num < ret[i + 1].num
        /\ \A i \in 1..Len(ret) :
             ret[i].name = CleanName(prompt[1][FirstDeclaration(ret[i].num)].name)

\* A step declared twice, under two names, around a step with a smaller
\* number.
C15_Witness ==
    /\ pc = "extracted" /\ prompt # None /\ Len(prompt[1]) = 3
    /\ \A k \in 1..3 : prompt[1][k].step
    /\ prompt[1][1].num = prompt[1][3].num
    /\ prompt[1][1].name # prompt[1][3].name
    /\ prompt[1][2].num < prompt[1][1].num
    /\ Len(ret) = 2

----------------------------------------------------------------------------
(* core/reporter.py : extract_last_step_from_result on its own *)

MaxResultLen == 4

StepLexemes == {"STEP", "Step", "step", " ", "1", "3", "x"}

InitLastStep ==
    /\ NoVerdict
    /\ pc = "call"
    /\ test_name = "none"
    /\ test_passed = FALSE
    /\ last_step = 0
    /\ prompt = None
    /\ checkpoints = <<>>
    /\ items = <<>>
    /\ cur = 0
    /\ status = "none"
    /\ _last_prompt = None
    /\ _last_result \in {None} \cup {Some(t) : t \in SeqsUpTo(StepLexemes, MaxResultLen)}
    /\ results = <<>>
    /\ NoNotification
    /\ NoEnvironment

\* last_step = extract_last_step_from_result(agent._last_result)
ExtractLastStep ==
    /\ pc = "call"
    /\ last_step' = extract_last_step_from_result(_last_result)
    /\ pc' = "last_step_done"
    /\ UNCHANGED <<test_name, test_passed, prompt, checkpoints, sessVars, vdVars>>
    /\ UNCHANGED ntVars
    /\ UNCHANGED envVars

NextLastStep == ExtractLastStep

SpecLastStep == InitLastStep /\ [][NextLastStep]_vars

\* The positions of a transcript where a step is mentioned: one of the three
\* spellings followed, after optional whitespace, by a digit.
MentionPositions(t) ==
    {i \in 1..Len(t) :
        /\ t[i] \in StepWords
        /\ SkipSpaces(t, i + 1) <= Len(t)
        /\ IsDigit(t[SkipSpaces(t, i + 1)])}

Max(S) == CHOOSE x \in S : \A y \in S : y <= x

\* The number of the mention at position i.
MentionNumber(t, i) ==
    IntOf(t, SkipSpaces(t, i + 1), DigitsEnd(t, SkipSpaces(t, i + 1)))

\* C16: the value is the number of the mention that comes last in the
\* transcript, and 0 for None, for the empty transcript and for a
\* transcript without a mention.
C16_LastMentionInDocumentOrder ==
    (pc = "last_step_done") =>
        IF _last_result = None \/ MentionPositions(_last_result[1]) = {}
        THEN last_step = 0
        ELSE last_step =
               MentionNumber(_last_result[1], Max(MentionPositions(_last_result[1])))

\* Step 3 is mentioned before step 1: the value is 1, not the largest.
C16_Witness ==
    /\ pc = "last_step_done" /\ _last_result # None
    /\ Cardinality(MentionPositions(_last_result[1])) = 2
    /\ MentionNumber(_last_result[1], Min(MentionPositions(_last_result[1]))) = 3
    /\ last_step = 1

----------------------------------------------------------------------------
(* core/reporter.py : TestReport and ReportGenerator.generate_html *)

MaxResults == 3

total_tests(rs) == Len(rs)

\* Variant of passed_tests that counts every result that has not failed.
passed_tests_not_failed(rs) == Len(SelectSeq(rs, LAMBDA r : r.status # "failed"))

passed_tests(rs) == Len(SelectSeq(rs, LAMBDA r : r.status = "passed"))

\* TestReport.pass_rate, a float, as the exact quotient num / den.
pass_rate(rs) ==
    IF total_tests(rs) = 0 THEN [num |-> 0, den |-> 1]
    ELSE [num |-> passed_tests(rs) * 100, den |-> total_tests(rs)]

\* f"{report.pass_rate:.1f}" : the rate in tenths, rounded to the nearest
\* tenth, a tie going to the even one.
FormatOneDecimal(q) ==
    LET tenths == (q.num * 10) \div q.den
        rest == (q.num * 10) % q.den
    IN IF 2 * rest > q.den THEN tenths + 1
       ELSE IF 2 * rest = q.den THEN tenths + (tenths % 2)
       ELSE tenths

\* Variant of AddToModules that opens a new group before the existing ones.
AddToModulesNewestFirst(modules, r) ==
    IF \E i \in 1..Len(modules) : modules[i].module = r.module
    THEN [i \in 1..Len(modules) |->
            IF modules[i].module = r.module
            THEN [modules[i] EXCEPT !.results = Append(@, r)]
            ELSE modules[i]]
    ELSE <<[module |-> r.module, results |-> <<r>>]>> \o modules

\* One step of the grouping loop: append the result to the group of its
\* module, opening that group after the existing ones when it is new.
AddToModules(modules, r) ==
    IF \E i \in 1..Len(modules) : modules[i].module = r.module
    THEN [i \in 1..Len(modules) |->
            IF modules[i].module = r.module
            THEN [modules[i] EXCEPT !.results = Append(@, r)]
            ELSE modules[i]]
    ELSE Append(modules, [module |-> r.module, results |-> <<r>>])

\* The dict modules after the loop over report.results, as the sequence of
\* its items in insertion order.
RECURSIVE GroupByModule(_, _)
GroupByModule(rs, modules) ==
    IF rs = <<>> THEN modules
    ELSE GroupByModule(Tail(rs), AddToModules(modules, Head(rs)))

\* The part of the page generate_html builds from the results: the module
\* sections with their entries, in the order of modules.items(), and the
\* pass-rate cell.
generate_html(rs) ==
    [results_html |-> GroupByModule(rs, <<>>),
     pass_rate_cell |-> FormatOneDecimal(pass_rate(rs))]

ResultNames == {"test_a", "test_b"}

Modules == {"test_login", "test_creative"}

ResultStatuses == {"passed", "failed", "error"}

TestResults == [name : ResultNames, module : Modules, status : ResultStatuses]

InitReport ==
    /\ NoVerdict
    /\ pc = "collect"
    /\ test_name = "none"
    /\ test_passed = FALSE
    /\ last_step = 0
    /\ prompt = None
    /\ checkpoints = <<>>
    /\ items = <<>>
    /\ cur = 0
    /\ status = "none"
    /\ _last_prompt = None
    /\ _last_result = None
    /\ results = <<>>
    /\ NoNotification
    /\ NoEnvironment

\* config._test_report.results.append(test_result)
AppendResult ==
    /\ pc = "collect"
    /\ Len(results) < MaxResults
    /\ \E r \in TestResults : results' = Append(results, r)
    /\ UNCHANGED <<pc, ckVars, items, cur, status, _last_prompt, _last_result, vdVars>>
    /\ UNCHANGED ntVars
    /\ UNCHANGED envVars

\* A read of the property report.pass_rate.
PassRate ==
    /\ pc = "collect"
    /\ ret' = pass_rate(results)
    /\ pc' = "rate_read"
    /\ UNCHANGED <<result, expected, ckVars, sessVars>>
    /\ UNCHANGED ntVars
    /\ UNCHANGED envVars

GenerateHtml ==
    /\ pc = "collect"
    /\ ret' = generate_html(results)
    /\ pc' = "rendered"
    /\ UNCHANGED <<result, expected, ckVars, sessVars>>
    /\ UNCHANGED ntVars
    /\ UNCHANGED envVars

NextReport == AppendResult \/ PassRate \/ GenerateHtml

SpecReport == InitReport /\ [][NextReport]_vars

----------------------------------------------------------------------------
(* Claims on the report (SpecReport) *)

PassedCount == Cardinality({i \in 1..Len(results) : results[i].status = "passed"})

\* C17: after any sequence of appended results the pass rate is
\* passed / total * 100, and it is 0 when the report holds no result.
C17_PassRate ==
    (pc = "rate_read") =>
        IF results = <<>> THEN ret.num = 0 /\ ret.den # 0
        ELSE /\ ret.den # 0
             /\ ret.num * Len(results) = PassedCount * 100 * ret.den

\* Three results, two of them passed and one in error.
C17_Witness ==
    /\ pc = "rate_read" /\ Len(results) = 3 /\ PassedCount = 2
    /\ \E i \in 1..3 : results[i].status = "error"
    /\ ret.num * 3 = 200 * ret.den

\* The index of the first result of module m.
FirstSeen(m) == Min({k \in 1..Len(results) : results[k].module = m})

\* C18: the module sections are in the order in which the modules are first
\* seen in the results, each section lists the results of its module in
\* insertion order, and every result is in exactly one section.
C18_GroupedByModule ==
    (pc = "rendered") =>
        LET g == ret.results_html IN
        /\ \A i \in 1..Len(g) : \A j \in (i + 1)..Len(g) :
              /\ g[i].module # g[j].module
              /\ FirstSeen(g[i].module) < FirstSeen(g[j].module)
        /\ \A i \in 1..Len(g) :
              g[i].results = SelectSeq(results, LAMBDA r : r.module = g[i].module)
        /\ \A k \in 1..Len(results) :
              Cardinality({i \in 1..Len(g) : g[i].module = results[k].module}) = 1

\* Two results of one module around a result of another module.
C18_Witness ==
    /\ pc = "rendered" /\ Len(results) = 3
    /\ results[1].module = results[3].module
    /\ results[2].module # results[1].module
    /\ results[1] # results[3]
    /\ Len(ret.results_html) = 2
    /\ ret.results_html[1].results = <<results[1], results[3]>>

----------------------------------------------------------------------------
(* Claims on the session (Spec) *)

\* C19: when a collected test is over, whether it passed, failed, raised in
\* its body or raised while its fixtures were set up, exactly one TestResult
\* has been appended for it, with a status other than passed when it did
\* not pass; at the end of the session the report holds one result for each
\* collected test.
C19_OneResultPerTest ==
    /\ (pc = "teardown") =>
          /\ Len(results) = cur
          /\ results[cur].name = items[cur]
          /\ (status # "passed") => (results[cur].status # "passed")
    /\ (pc = "finished") => (Len(results) = Len(items))

----------------------------------------------------------------------------
(* core/reporter.py : send_email and send_to_slack *)

failed_tests(rs) == Len(SelectSeq(rs, LAMBDA r : r.status \in {"failed", "error"}))

\* The operations of the try block of send_email, in order: SMTP_SSL(...),
\* server.login, server.sendmail, and the QUIT sent when the with block is
\* left.
SmtpOps == <<"connect", "login", "sendmail", "quit">>

\* What the mail server does: the operations all complete (0), or the k-th
\* raises (server unreachable, login refused, recipient refused, ...).
SmtpOutcomes == 0..Len(SmtpOps)

\* The operations asked of the mail server when the k-th one raises.
SmtpLog(k) ==
    [i \in 1..(IF k = 0 THEN Len(SmtpOps) ELSE k) |->
        [op |-> SmtpOps[i], ok |-> (i # k), status |-> 0]]

\* try: ... return True / except Exception: return False
send_email(k) == \A i \in 1..Len(SmtpLog(k)) : SmtpLog(k)[i].ok

\* What urlopen does: hand back a response (a 2xx status), raise HTTPError
\* (any other status), raise URLError (host unreachable) or raise another
\* exception (timeout).
SlackOutcomes ==
    [kind : {"response"}, status : {200, 201, 204}]
    \cup [kind : {"HTTPError"}, status : {403, 500}]
    \cup [kind : {"URLError", "Exception"}, status : {0}]

\* Variant of send_to_slack that takes any response for a success.
send_to_slack_any_response(o) == o.kind = "response"

\* if response.status == 200: return True / else: return False; the three
\* except clauses return False.
send_to_slack(o) ==
    IF o.kind = "response" THEN o.status = 200 ELSE FALSE

\* Reports about one test module.
ReportResults ==
    SeqsUpTo([name : {"test_a"}, module : {"test_login"}, status : ResultStatuses],
             MaxResults)

InitNotify ==
    /\ NoVerdict
    /\ NoNotification
    /\ pc = "notify"
    /\ test_name = "none"
    /\ test_passed = FALSE
    /\ last_step = 0
    /\ prompt = None
    /\ checkpoints = <<>>
    /\ items = <<>>
    /\ cur = 0
    /\ status = "none"
    /\ _last_prompt = None
    /\ _last_result = None
    /\ results \in ReportResults
    /\ NoEnvironment

\* The subject line send_email builds from the report.
Subject(rs) ==
    [pass_rate |-> FormatOneDecimal(pass_rate(rs)),
     passed |-> passed_tests(rs),
     total |-> total_tests(rs)]

\* send_email when the report file can be read.
SendEmail ==
    /\ pc = "notify"
    /\ \E k \in SmtpOutcomes :
          /\ transport' = SmtpLog(k)
          /\ ret' = Some(send_email(k))
    /\ payload' = Subject(results)
    /\ pc' = "email_done"
    /\ UNCHANGED <<result, expected, ckVars, sessVars>>
    /\ UNCHANGED envVars

\* send_email when open(report_path, "rb") raises: the exception leaves the
\* function before the mail server is asked for anything.
SendEmailNoFile ==
    /\ pc = "notify"
    /\ transport' = <<>>
    /\ ret' = None
    /\ payload' = Subject(results)
    /\ pc' = "email_raised"
    /\ UNCHANGED <<result, expected, ckVars, sessVars>>
    /\ UNCHANGED envVars

SendToSlack ==
    /\ pc = "notify"
    /\ \E channel \in {None, Some("#qa")} :
       \E mention_on_failure \in {None, Some("@channel")} :
          payload' = [channel |-> channel,
                      mention |-> (mention_on_failure # None /\ failed_tests(results) > 0)]
    /\ \E o \in SlackOutcomes :
          /\ transport' = <<[op |-> "POST", ok |-> (o.kind = "response"),
                             status |-> o.status]>>
          /\ ret' = Some(send_to_slack(o))
    /\ pc' = "slack_done"
    /\ UNCHANGED <<result, expected, ckVars, sessVars>>
    /\ UNCHANGED envVars

NextNotify == SendEmail \/ SendEmailNoFile \/ SendToSlack

SpecNotify == InitNotify /\ [][NextNotify]_vars

----------------------------------------------------------------------------
(* Claims on the notifications (SpecNotify) *)

\* An operation asked of the mail server or of the webhook has failed.
TransportFailed == \E i \in 1..Len(transport) : ~transport[i].ok

\* The operation op has been asked for and has completed.
Completed(op) ==
    \E i \in 1..Len(transport) : transport[i].op = op /\ transport[i].ok

\* C20: when the transport fails, send_email and send_to_slack do not raise
\* and return False; send_to_slack returns True only on a response with
\* status 200; send_email returns True only when login and sendmail have
\* both completed.
C20_NotificationsNeverRaise ==
    /\ TransportFailed =>
          (pc \in {"email_done", "slack_done"} /\ ret = Some(FALSE))
    /\ (pc = "slack_done" /\ ret = Some(TRUE)) =>
          (Completed("POST") /\ transport[1].status = 200)
    /\ (pc = "email_done" /\ ret = Some(TRUE)) =>
          (Completed("login") /\ Completed("sendmail"))

\* The mail server is reached and refuses the login: send_email has
\* returned False.
C20_Witness ==
    /\ pc = "email_done"
    /\ Completed("connect") /\ ~Completed("login")
    /\ ret = Some(FALSE)

----------------------------------------------------------------------------
(* core/gmail_helper.py: GmailHelper.wait_for_verification_code.  A header  *)
(* is a sequence of lexemes, a body a sequence of words, a word a sequence  *)
(* of characters.  Dates are seconds relative to search_start_time.         *)

Timeout == 2
PollInterval == 1
MaxLatency == 1
MaxInbox == 2

LowerLetters == <<"a", "b", "c", "d", "e", "f", "g", "h", "i", "j", "k", "l", "m", "n", "o", "p", "q", "r", "s", "t", "u", "v", "w", "x", "y", "z">>

UpperLetters == <<"A", "B", "C", "D", "E", "F", "G", "H", "I", "J", "K", "L", "M", "N", "O", "P", "Q", "R", "S", "T", "U", "V", "W", "X", "Y", "Z">>

\* str.upper() of one character, and of a word.
UpperChar(c) ==
    IF \E i \in 1..26 : LowerLetters[i] = c
    THEN UpperLetters[CHOOSE i \in 1..26 : LowerLetters[i] = c]
    ELSE c

Upper(w) == [i \in 1..Len(w) |-> UpperChar(w[i])]

IsAlpha(c) == c \in Range(LowerLetters) \cup Range(UpperLetters)

IsAlnum(c) == IsAlpha(c) \/ IsDigit(c)

invalid_words ==
    {<<"C", "O", "D", "E">>,
     <<"C", "U", "R", "S", "O", "R">>,
     <<"L", "E", "T", "T", "E", "R">>,
     <<"N", "U", "M", "B", "E", "R">>,
     <<"S", "T", "R", "I", "N", "G">>,
     <<"S", "T", "Y", "L", "E">>,
     <<"C", "O", "L", "O", "R">>,
     <<"W", "I", "D", "T", "H">>,
     <<"H", "E", "I", "G", "H", "T">>,
     <<"M", "A", "R", "G", "I", "N">>,
     <<"B", "O", "R", "D", "E", "R">>,
     <<"B", "U", "T", "T", "O", "N">>,
     <<"E", "M", "A", "I", "L">>,
     <<"L", "O", "G", "I", "N">>,
     <<"S", "U", "B", "M", "I", "T">>,
     <<"V", "E", "R", "I", "F", "Y">>,
     <<"H", "E", "A", "D", "E", "R">>,
     <<"F", "O", "O", "T", "E", "R">>}

\* GmailHelper._is_valid_code
_is_valid_code(code) ==
    LET has_letter == \E i \in 1..Len(code) : IsAlpha(code[i])
        has_digit == \E i \in 1..Len(code) : IsDigit(code[i])
    IN  IF code \in invalid_words THEN FALSE
        ELSE IF Cardinality(Range(code)) < 2 THEN FALSE
        ELSE IF has_letter /\ ~has_digit THEN Cardinality(Range(code)) >= 4
        ELSE TRUE

\* The fallback pattern of _extract_code: a standalone word of six
\* letters or digits.
FallbackMatches(w) == Len(w) = 6 /\ \A i \in 1..6 : IsAlnum(w[i])

\* GmailHelper._extract_code, for a body of bare words (no markup and no
\* "verification code" phrase, so that only the fallback pattern applies):
\* the first word in the body that matches and is valid, in capitals.
_extract_code(body) ==
    LET hits == {i \in 1..Len(body) :
                    FallbackMatches(body[i]) /\ _is_valid_code(Upper(body[i]))}
    IN  IF hits = {} THEN <<>> ELSE Upper(body[Min(hits)])

\* GmailHelper._parse_email_date: None when no format parses the header.
_parse_email_date(h) == IF h.parses THEN Some(h.t) ELSE None

\* The arguments of the call.
alias_email == <<"x+1", "@", "G">>

sender_filter == <<"revosurge">>

\* alias_lower.split('@')[0]
LocalPart(a) ==
    LET ats == {i \in 1..Len(a) : a[i] = "@"}
    IN  IF ats = {} THEN a ELSE SubSeq(a, 1, Min(ats) - 1)

\* The three filters of the message loop that come before the body is read.
SenderMatches(m) == IsSubstring(LowerText(sender_filter), LowerText(m.From))

email_matches_alias(m) ==
    LET alias_lower == LowerText(alias_email)
        to_addr == LowerText(m.To)
        delivered_to == LowerText(m.DeliveredTo)
    IN  \/ IsSubstring(alias_lower, to_addr)
        \/ IsSubstring(alias_lower, delivered_to)
        \/ IsSubstring(LocalPart(alias_lower), to_addr)

DateAccepted(m) ==
    LET email_date == _parse_email_date(m.Date)
    IN  email_date # None /\ ~(email_date[1] < 0)

\* The check made once a code was found, before the message is flagged.
\* The variant trusts email_matches_alias and does not look again.
DoubleCheckTrusting(m) == TRUE

DoubleCheck(m) ==
    LET alias_lower == LowerText(alias_email)
    IN  ~(/\ ~IsSubstring(alias_lower, LowerText(m.To))
          /\ ~IsSubstring(alias_lower, LowerText(m.DeliveredTo)))

\* The message loop returns the code of message m.
Accepts(m) ==
    /\ SenderMatches(m)
    /\ email_matches_alias(m)
    /\ DateAccepted(m)
    /\ _extract_code(m.body) # <<>>
    /\ DoubleCheck(m)

\* The messages a mailbox can hold.
FromHeaders == {<<"RevoSurge">>, <<"other">>}

Recipients ==
    {[To |-> <<"X+1", "@", "g">>, DeliveredTo |-> <<"y", "@", "g">>],
     [To |-> <<"x+1", "@", "h">>, DeliveredTo |-> <<"y", "@", "g">>],
     [To |-> <<"y", "@", "g">>, DeliveredTo |-> <<"x+1", "@", "g">>],
     [To |-> <<"y", "@", "g">>, DeliveredTo |-> <<"y", "@", "g">>]}

DateHeaders ==
    {[parses |-> FALSE, t |-> 0], [parses |-> TRUE, t |-> -1],
     [parses |-> TRUE, t |-> 0]}

Bodies ==
    {<< <<"m", "4", "j", "p", "d", "3">> >>,
     << <<"c", "u", "r", "s", "o", "r">> >>}

AllMessages ==
    {[From |-> f, To |-> r.To, DeliveredTo |-> r.DeliveredTo, Date |-> d,
      body |-> b, seen |-> FALSE] :
        f \in FromHeaders, r \in Recipients, d \in DateHeaders, b \in Bodies}

\* The messages that arrive: those the loop returns a code from, and those
\* it skips for one reason only.
Messages ==
    {m \in AllMessages :
        Cardinality({c \in {"sender", "alias", "date", "code"} :
            \/ c = "sender" /\ ~SenderMatches(m)
            \/ c = "alias" /\ ~(email_matches_alias(m) /\ DoubleCheck(m))
            \/ c = "date" /\ ~DateAccepted(m)
            \/ c = "code" /\ _extract_code(m.body) = <<>>}) <= 1}

Op(op, ok) == [op |-> op, ok |-> ok, status |-> 0]

InitGmail ==
    /\ pc = "gmail_call"
    /\ ret = <<>>
    /\ test_name = ""
    /\ test_passed = FALSE
    /\ last_step = None
    /\ prompt = None
    /\ checkpoints = <<>>
    /\ NoSession
    /\ NoVerdict
    /\ NoNotification
    /\ NoEnvironment

\* A message is delivered to the mailbox while the caller waits.
EmailArrives ==
    /\ pc = "gmail_poll"
    /\ Len(inbox) < MaxInbox
    /\ \E m \in Messages : inbox' = Append(inbox, m)
    /\ UNCHANGED <<pc, ret, transport, clock>>
    /\ UNCHANGED <<payload, ckVars, sessVars, result, expected>>

\* mail.login, before the try statement.
Login ==
    /\ pc = "gmail_call"
    /\ pc' = "gmail_select"
    /\ transport' = Append(transport, Op("login", TRUE))
    /\ UNCHANGED <<ret, clock, inbox>>
    /\ UNCHANGED <<payload, ckVars, sessVars, result, expected>>

LoginRaises ==
    /\ pc = "gmail_call"
    /\ pc' = "gmail_raised"
    /\ transport' = Append(transport, Op("login", FALSE))
    /\ UNCHANGED <<ret, clock, inbox>>
    /\ UNCHANGED <<payload, ckVars, sessVars, result, expected>>

\* mail.select("inbox"), the first statement of the try.
Select ==
    /\ pc = "gmail_select"
    /\ pc' = "gmail_poll"
    /\ transport' = Append(transport, Op("select", TRUE))
    /\ UNCHANGED <<ret, clock, inbox>>
    /\ UNCHANGED <<payload, ckVars, sessVars, result, expected>>

\* The variant has no finally clause around the selection.
SelectRaisesNoFinally ==
    /\ pc = "gmail_select"
    /\ pc' = "gmail_raised"
    /\ transport' = Append(transport, Op("select", FALSE))
    /\ UNCHANGED <<ret, clock, inbox>>
    /\ UNCHANGED <<payload, ckVars, sessVars, result, expected>>

SelectRaises ==
    /\ pc = "gmail_select"
    /\ pc' = "gmail_raised"
    /\ \E lo \in BOOLEAN :
        transport' = transport \o <<Op("select", FALSE), Op("logout", lo)>>
    /\ UNCHANGED <<ret, clock, inbox>>
    /\ UNCHANGED <<payload, ckVars, sessVars, result, expected>>

\* The first message of the mailbox whose code the loop returns, if any.
Hits == {i \in 1..Len(inbox) : Accepts(inbox[i])}

\* One round of the while loop that finds a code: the message is flagged
\* and the code returned, through the finally clause.
PollFinds ==
    /\ pc = "gmail_poll"
    /\ clock < Timeout
    /\ Hits # {}
    /\ LET i == Min(Hits)
       IN  /\ inbox' = [inbox EXCEPT ![i].seen = TRUE]
           /\ ret' = _extract_code(inbox[i].body)
           /\ \E lo \in BOOLEAN :
                transport' = transport \o
                    <<Op("search", TRUE), [op |-> "store", ok |-> TRUE, status |-> i],
                      Op("logout", lo)>>
    /\ pc' = "gmail_returned"
    /\ UNCHANGED clock
    /\ UNCHANGED <<payload, ckVars, sessVars, result, expected>>

\* One round that finds nothing and sleeps.
PollSleeps ==
    /\ pc = "gmail_poll"
    /\ clock < Timeout
    /\ Hits = {}
    /\ \E d \in 0..MaxLatency : clock' = clock + PollInterval + d
    /\ transport' = Append(transport, Op("search", TRUE))
    /\ UNCHANGED <<pc, ret, inbox>>
    /\ UNCHANGED <<payload, ckVars, sessVars, result, expected>>

\* An IMAP operation of a round raises: search or fetch, or the store of
\* the message whose code was found.
PollRaises ==
    /\ pc = "gmail_poll"
    /\ clock < Timeout
    /\ \E lo \in BOOLEAN :
        \/ transport' = transport \o <<Op("search", FALSE), Op("logout", lo)>>
        \/ /\ Hits # {}
           /\ transport' = transport \o
                <<Op("search", TRUE),
                  [op |-> "store", ok |-> FALSE, status |-> Min(Hits)],
                  Op("logout", lo)>>
    /\ pc' = "gmail_raised"
    /\ UNCHANGED <<ret, clock, inbox>>
    /\ UNCHANGED <<payload, ckVars, sessVars, result, expected>>

\* The loop condition fails: the empty string is returned.
TimedOut ==
    /\ pc = "gmail_poll"
    /\ ~(clock < Timeout)
    /\ ret' = <<>>
    /\ \E lo \in BOOLEAN : transport' = Append(transport, Op("logout", lo))
    /\ pc' = "gmail_returned"
    /\ UNCHANGED <<clock, inbox>>
    /\ UNCHANGED <<payload, ckVars, sessVars, result, expected>>

\* The steps of the call itself, as opposed to those of the mail server.
GmailStep ==
    \/ Login
    \/ LoginRaises
    \/ Select
    \/ SelectRaises
    \/ PollRaises
    \/ TimedOut
    \/ PollFinds
    \/ PollSleeps

NextGmail == GmailStep \/ EmailArrives

SpecGmail == InitGmail /\ [][NextGmail]_vars

\* The call is not suspended for ever: every IMAP operation and every
\* sleep comes back.
FairSpecGmail == SpecGmail /\ WF_vars(GmailStep)

\* The call is over, by a return or by an exception.
GmailDone == pc \in {"gmail_returned", "gmail_raised"}

\* The searches made so far: one per round of the loop.
Polls == Cardinality({i \in 1..Len(transport) : transport[i].op = "search"})

\* The try statement was entered.
TryEntered == \E i \in 1..Len(transport) : transport[i].op = "select"

LogoutAttempted ==
    /\ transport # <<>>
    /\ transport[Len(transport)].op = "logout"

\* C21: the call ends; when no message of the mailbox is accepted it has
\* made at most Timeout / PollInterval rounds (rounded up), returns the
\* empty string, and does so only once the clock has reached the timeout;
\* whenever the call is over and had entered the try statement, by a code,
\* by the timeout or by an exception, the last thing asked of the IMAP
\* session is the logout.
C21_PollingTerminates ==
    /\ [](Polls * PollInterval < Timeout + PollInterval)
    /\ []((pc = "gmail_returned" /\ Hits = {} /\ ~\E i \in 1..Len(inbox) : inbox[i].seen)
            => (ret = <<>> /\ ~(clock < Timeout)))
    /\ []((GmailDone /\ TryEntered) => LogoutAttempted)
    /\ <>GmailDone

C21_Witness ==
    /\ pc = "gmail_returned"
    /\ ret = <<>>
    /\ inbox # <<>>
    /\ Polls = 2
    /\ LogoutAttempted

\* C27: a non-empty code is returned only from a message whose From header
\* contains the sender filter whatever the case, whose To or Delivered-To
\* header contains the full alias, whose Date header parses and is not
\* before the start of the search, and whose body yields that valid code;
\* the message has been flagged as seen, by a store made before the logout.
C27_CodeOnlyFromMatchingEmail ==
    (pc = "gmail_returned" /\ ret # <<>>) =>
        \E i \in 1..Len(inbox) :
            LET m == inbox[i]
            IN  /\ IsSubstring(LowerText(sender_filter), LowerText(m.From))
                /\ \/ IsSubstring(LowerText(alias_email), LowerText(m.To))
                   \/ IsSubstring(LowerText(alias_email), LowerText(m.DeliveredTo))
                /\ m.Date.parses
                /\ m.Date.t >= 0
                /\ _extract_code(m.body) = ret
                /\ _is_valid_code(ret)
                /\ m.seen
                /\ \E k \in 1..Len(transport) :
                    /\ transport[k] = [op |-> "store", ok |-> TRUE, status |-> i]
                    /\ \A j \in 1..k : transport[j].op # "logout"

\* A code is returned from the second message, after a first one that
\* carries a code but is addressed to the local part on another domain.
C27_Witness ==
    /\ pc = "gmail_returned"
    /\ ret = <<"M", "4", "J", "P", "D", "3">>
    /\ Len(inbox) = 2
    /\ inbox[2].seen
    /\ ~inbox[1].seen
    /\ _extract_code(inbox[1].body) # <<>>
    /\ SenderMatches(inbox[1])
    /\ DateAccepted(inbox[1])
    /\ email_matches_alias(inbox[1])

----------------------------------------------------------------------------
(* The cooldown between the tests of a session.                             *)

\* C22: when an item starts, the session has slept the cooldown once for
\* each item before it, so the delay after an item with a successor has
\* elapsed before the successor's set-up; when the session is finished it
\* has slept once for each item but the last: none after the last item.
C22_CooldownBetweenTests ==
    /\ pc # "finished" => clock = CooldownSeconds * (cur - 1)
    /\ (pc = "finished" /\ items # <<>>) =>
            clock = CooldownSeconds * (Len(items) - 1)

C22_Witness ==
    /\ pc = "finished"
    /\ Len(items) = 2
    /\ Len(results) = 2
    /\ clock = CooldownSeconds

----------------------------------------------------------------------------
(* The fallback step declarations.                                          *)

\* The keyword of the fallback lists that a test name contains.
NameKeyword ==
    ("test_create_push_campaign" :> "campaign") @@ ("test_login" :> "generic")

GenericStepNames == <<"Login", "Navigate", "Execute Task", "Verify Result">>

\* C23: without a prompt the step declarations depend on the keyword of the
\* test name: a name without keyword gets the generic list, and a name
\* that contains "campaign" gets a list of its own, not the generic one.
C23_FallbackByKeyword ==
    (pc = "done" /\ prompt = None) =>
        LET names == [i \in 1..Len(checkpoints) |-> checkpoints[i].name[1]]
        IN  IF NameKeyword[test_name] = "generic"
            THEN names = GenericStepNames
            ELSE names # GenericStepNames

----------------------------------------------------------------------------
(* Precedence of the markers in the registration verdicts.                  *)

\* The result block says "key false" and nowhere "key true".
BlockSaysFalse(t, key) ==
    /\ BlockContent(t) # None
    /\ HasKeyValue(BlockContent(t)[1], key, "false")
    /\ ~HasKeyValue(BlockContent(t)[1], key, "true")

\* The transcript has no result block and its key lines all say false.
StandaloneSaysFalse(t, key) ==
    /\ ~HasBlock(t)
    /\ HasKeyValue(t, key, "false")
    /\ ~HasKeyValue(t, key, "true")

\* C24: a result block that states login_success: false gives login
\* verdict false whatever stands outside the block; a standalone
\* LOGIN_SUCCESS: false line gives login verdict false and a standalone
\* REGISTRATION_SUCCESS: false line gives registration verdict false,
\* whatever keywords the transcript contains.
C24_MarkerPrecedence ==
    (pc = "done") =>
        /\ BlockSaysFalse(result, "login_success:") => ~ret.login_success
        /\ StandaloneSaysFalse(result, "login_success:") => ~ret.login_success
        /\ StandaloneSaysFalse(result, "registration_success:")
             => ~ret.registration_success

----------------------------------------------------------------------------
(* tests/conftest.py: pytest_collection_modifyitems and the order in which  *)
(* the runner then executes the items.  payload is the list as collected,   *)
(* items the list the hook sorts in place, results the names executed.      *)

MaxCollected == 3

TEST_ORDER ==
    <<"test_create_push_campaign", "test_create_pop_campaign",
      "test_create_display_campaign", "test_create_native_campaign",
      "test_upload_push_creative", "test_upload_display_creative",
      "test_upload_native_creative", "test_create_audience">>

\* The variant puts the tests that TEST_ORDER does not name first.
get_order_unknown_first(name) ==
    IF \E i \in 1..Len(TEST_ORDER) : TEST_ORDER[i] = name
    THEN Min({i \in 1..Len(TEST_ORDER) : TEST_ORDER[i] = name}) - 1
    ELSE 0 - 1

\* get_order: TEST_ORDER.index(item.name), or len(TEST_ORDER) on ValueError.
get_order(name) ==
    IF \E i \in 1..Len(TEST_ORDER) : TEST_ORDER[i] = name
    THEN Min({i \in 1..Len(TEST_ORDER) : TEST_ORDER[i] = name}) - 1
    ELSE Len(TEST_ORDER)

\* list.sort(key=get_order) is stable: an item goes after the items
\* already placed whose key is not greater than its own.
InsertByOrder(x, sorted) ==
    LET k == Cardinality({i \in 1..Len(sorted) :
                            get_order(sorted[i]) <= get_order(x)})
    IN  SubSeq(sorted, 1, k) \o <<x>> \o SubSeq(sorted, k + 1, Len(sorted))

RECURSIVE SortByOrder(_)
SortByOrder(its) ==
    IF its = <<>> THEN <<>>
    ELSE InsertByOrder(its[Len(its)], SortByOrder(SubSeq(its, 1, Len(its) - 1)))

CollectedNames ==
    {"test_create_audience", "test_create_push_campaign",
     "test_upload_push_creative", "test_login", "test_registration"}

InitCollection ==
    /\ pc = "collected"
    /\ payload \in SeqsUpTo(CollectedNames, MaxCollected)
    /\ items = payload
    /\ cur = 1
    /\ status = "none"
    /\ _last_prompt = None
    /\ _last_result = None
    /\ results = <<>>
    /\ test_name = "none"
    /\ test_passed = FALSE
    /\ last_step = 0
    /\ prompt = None
    /\ checkpoints = <<>>
    /\ NoVerdict
    /\ transport = <<>>
    /\ NoEnvironment

\* pytest_collection_modifyitems(items)
ModifyItems ==
    /\ pc = "collected"
    /\ items' = SortByOrder(items)
    /\ pc' = "run"
    /\ UNCHANGED <<cur, status, _last_prompt, _last_result, results, payload>>
    /\ UNCHANGED <<ckVars, vdVars, transport, envVars>>

\* The runner executes the items of session.items one after the other.
RunItem ==
    /\ pc = "run"
    /\ cur <= Len(items)
    /\ results' = Append(results, items[cur])
    /\ cur' = cur + 1
    /\ UNCHANGED <<pc, items, status, _last_prompt, _last_result, payload>>
    /\ UNCHANGED <<ckVars, vdVars, transport, envVars>>

NextCollection == ModifyItems \/ RunItem

SpecCollection == InitCollection /\ [][NextCollection]_vars

Named(name) == \E i \in 1..Len(TEST_ORDER) : TEST_ORDER[i] = name

NotNamed(name) == ~Named(name)

PositionInOrder(name) == CHOOSE i \in 1..Len(TEST_ORDER) : TEST_ORDER[i] = name

\* C25: of two tests executed one before the other, the earlier one is not
\* an unnamed test followed by a named one, two named tests are in the
\* order of TEST_ORDER, and the unnamed tests are executed in the order in
\* which they were collected; every collected test is executed.
C25_ExecutionOrder ==
    /\ \A i, j \in 1..Len(results) :
         i < j =>
            /\ ~(NotNamed(results[i]) /\ Named(results[j]))
            /\ (Named(results[i]) /\ Named(results[j]))
                  => PositionInOrder(results[i]) <= PositionInOrder(results[j])
    /\ (pc = "run" /\ cur > Len(items)) =>
            /\ Len(results) = Len(payload)
            /\ SelectSeq(results, NotNamed) = SelectSeq(payload, NotNamed)
            /\ \A n \in CollectedNames :
                 Cardinality({i \in 1..Len(results) : results[i] = n})
                    = Cardinality({i \in 1..Len(payload) : payload[i] = n})

\* Collected as registration, audience, login: executed as audience,
\* registration, login.
C25_Witness ==
    /\ pc = "run"
    /\ payload = <<"test_registration", "test_create_audience", "test_login">>
    /\ results = <<"test_create_audience", "test_registration", "test_login">>

----------------------------------------------------------------------------
(* tests/conftest.py: pytest_sessionfinish.  payload holds the options of   *)
(* the session (which are set), transport the operations in the order in    *)
(* which they are made, ret the content of the saved report file, status    *)
(* what send_email returned.                                                *)

SessionOptions ==
    [report : BOOLEAN, to_email : BOOLEAN, smtp_user : BOOLEAN,
     smtp_password : BOOLEAN]

\* The variant asks only for a recipient.
EmailConfiguredRecipientOnly(opts) == opts.to_email

\* if to_email: ... if smtp_user and smtp_password:
EmailConfigured(opts) ==
    opts.to_email /\ opts.smtp_user /\ opts.smtp_password

InitFinish ==
    /\ pc = "sessionfinish"
    /\ payload \in SessionOptions
    /\ results \in ReportResults
    /\ transport = <<>>
    /\ ret = None
    /\ result = <<>>
    /\ expected = <<>>
    /\ status = "none"
    /\ items = <<>>
    /\ cur = 0
    /\ _last_prompt = None
    /\ _last_result = None
    /\ test_name = "none"
    /\ test_passed = FALSE
    /\ last_step = 0
    /\ prompt = None
    /\ checkpoints = <<>>
    /\ NoEnvironment

\* The --report option is not given: the hook does nothing.
FinishWithoutReport ==
    /\ pc = "sessionfinish"
    /\ ~payload.report
    /\ pc' = "finished"
    /\ UNCHANGED <<payload, transport, ret, status, results>>
    /\ UNCHANGED <<result, expected, items, cur, _last_prompt, _last_result>>
    /\ UNCHANGED <<ckVars, envVars>>

\* report.end_time = datetime.now()
SetEndTime ==
    /\ pc = "sessionfinish"
    /\ payload.report
    /\ transport' = Append(transport, Op("end_time", TRUE))
    /\ pc' = "save"
    /\ UNCHANGED <<payload, ret, status, results>>
    /\ UNCHANGED <<result, expected, items, cur, _last_prompt, _last_result>>
    /\ UNCHANGED <<ckVars, envVars>>

\* generator.save_report(report): generate_html, then the file is written.
SaveReport ==
    /\ pc = "save"
    /\ transport' = transport \o <<Op("render", TRUE), Op("write", TRUE)>>
    /\ ret' = Some(generate_html(results))
    /\ pc' = "email"
    /\ UNCHANGED <<payload, status, results>>
    /\ UNCHANGED <<result, expected, items, cur, _last_prompt, _last_result>>
    /\ UNCHANGED <<ckVars, envVars>>

\* open(filepath, "w") raises: the exception leaves the hook.
SaveReportRaises ==
    /\ pc = "save"
    /\ transport' = transport \o <<Op("render", TRUE), Op("write", FALSE)>>
    /\ pc' = "finish_raised"
    /\ UNCHANGED <<payload, ret, status, results>>
    /\ UNCHANGED <<result, expected, items, cur, _last_prompt, _last_result>>
    /\ UNCHANGED <<ckVars, envVars>>

\* generator.send_email(...), whose result is only printed.
SendReportEmail ==
    /\ pc = "email"
    /\ EmailConfigured(payload)
    /\ \E k \in SmtpOutcomes :
          /\ transport' = transport \o SmtpLog(k)
          /\ status' = IF send_email(k) THEN "sent" ELSE "not sent"
    /\ pc' = "finished"
    /\ UNCHANGED <<payload, ret, results>>
    /\ UNCHANGED <<result, expected, items, cur, _last_prompt, _last_result>>
    /\ UNCHANGED <<ckVars, envVars>>

\* No recipient, or no SMTP credentials: nothing is sent.
SkipEmail ==
    /\ pc = "email"
    /\ ~EmailConfigured(payload)
    /\ pc' = "finished"
    /\ UNCHANGED <<payload, transport, ret, status, results>>
    /\ UNCHANGED <<result, expected, items, cur, _last_prompt, _last_result>>
    /\ UNCHANGED <<ckVars, envVars>>

NextFinish ==
    \/ FinishWithoutReport
    \/ SetEndTime
    \/ SaveReport
    \/ SaveReportRaises
    \/ SendReportEmail
    \/ SkipEmail

SpecFinish == InitFinish /\ [][NextFinish]_vars

\* The positions of the log at which op was made.
Made(op) == {i \in 1..Len(transport) : transport[i].op = op}

\* Every op2 of the log comes after a completed op1.
Precedes(op1, op2) ==
    \A j \in Made(op2) : \E i \in Made(op1) : i < j /\ transport[i].ok

\* C26: end_time is set before the report is rendered; the file is written
\* before anything is asked of the mail server; after the rendering the
\* results are those the saved file was rendered from; when the delivery
\* fails the saved file is still there; and the mail server is asked only
\* when a recipient, an SMTP user and an SMTP password are configured.
C26_ReportLifecycle ==
    /\ Precedes("end_time", "render")
    /\ Precedes("render", "write")
    /\ \A op \in Range(SmtpOps) : Precedes("write", op)
    /\ ret # None => ret = Some(generate_html(results))
    /\ status = "not sent" => ret # None
    /\ (\E op \in Range(SmtpOps) : Made(op) # {}) =>
            (payload.report /\ payload.to_email /\ payload.smtp_user
                /\ payload.smtp_password)
    /\ (Made("render") # {}) => payload.report

\* The report of a session with a failed test is saved and the mail server
\* then refuses the login.
C26_Witness ==
    /\ pc = "finished"
    /\ status = "not sent"
    /\ ret # None
    /\ failed_tests(results) > 0
    /\ Made("login") # {}
    /\ ~Completed("login")

----------------------------------------------------------------------------
(* core/browser_agent.py: AdWaveBrowserAgent.run_task, called several times *)
(* on one agent.  payload describes the last call, transport holds what the *)
(* last call asked of the external agent, cur counts the calls.             *)

MaxCalls == 2

\* The agent after __init__, before any call.
InitAgent ==
    /\ pc = "agent"
    /\ cur = 0
    /\ _last_prompt = None
    /\ _last_result = None
    /\ payload = <<>>
    /\ transport = <<>>
    /\ ret = None
    /\ result = <<>>
    /\ expected = <<>>
    /\ status = "none"
    /\ items = <<>>
    /\ results = <<>>
    /\ test_name = "none"
    /\ test_passed = FALSE
    /\ last_step = 0
    /\ prompt = None
    /\ checkpoints = <<>>
    /\ NoEnvironment

\* Agent(**agent_kwargs) raises: the call is left before the try statement,
\* with the prompt stored and the result of the call before.
RunTaskAgentNotBuilt ==
    /\ pc = "agent"
    /\ cur < MaxCalls
    /\ \E task \in SessionTasks :
         /\ _last_prompt' = Some(task)
         /\ payload' = [task |-> task, outcome |-> "not built", value |-> <<>>,
                        session |-> FALSE, raised |-> TRUE]
    /\ transport' = <<>>
    /\ ret' = None
    /\ cur' = cur + 1
    /\ UNCHANGED <<pc, _last_result, result, expected, status, items, results>>
    /\ UNCHANGED <<ckVars, envVars>>

\* self._current_agent.run() returns: str(result) is stored and returned.
RunTaskCallReturns ==
    /\ pc = "agent"
    /\ cur < MaxCalls
    /\ \E task \in SessionTasks, r \in SessionResults :
         /\ _last_prompt' = Some(task)
         /\ _last_result' = Some(r)
         /\ ret' = Some(r)
         /\ payload' = [task |-> task, outcome |-> "returned", value |-> r,
                        session |-> TRUE, raised |-> FALSE]
    /\ transport' = <<Op("run", TRUE)>>
    /\ cur' = cur + 1
    /\ UNCHANGED <<pc, result, expected, status, items, results>>
    /\ UNCHANGED <<ckVars, envVars>>

\* The variant leaves the stored result as it was.
RunTaskCallRaisesKeepsResult ==
    /\ pc = "agent"
    /\ cur < MaxCalls
    /\ \E task \in SessionTasks, e \in ErrorMessages, session \in BOOLEAN,
          closed \in BOOLEAN :
         /\ _last_prompt' = Some(task)
         /\ _last_result' = _last_result
         /\ payload' = [task |-> task, outcome |-> "raised", value |-> e,
                        session |-> session, raised |-> TRUE]
         /\ transport' = IF session
                         THEN <<Op("run", FALSE), Op("close", closed)>>
                         ELSE <<Op("run", FALSE)>>
    /\ ret' = None
    /\ cur' = cur + 1
    /\ UNCHANGED <<pc, result, expected, status, items, results>>
    /\ UNCHANGED <<ckVars, envVars>>

\* self._current_agent.run() raises an Exception: the error text is stored,
\* the browser session, if the agent has one, is asked to close (what the
\* close raises is swallowed), and the exception is raised again.
RunTaskCallRaises ==
    /\ pc = "agent"
    /\ cur < MaxCalls
    /\ \E task \in SessionTasks, e \in ErrorMessages, session \in BOOLEAN,
          closed \in BOOLEAN :
         /\ _last_prompt' = Some(task)
         /\ _last_result' = Some(<<"Error (">> \o e)
         /\ payload' = [task |-> task, outcome |-> "raised", value |-> e,
                        session |-> session, raised |-> TRUE]
         /\ transport' = IF session
                         THEN <<Op("run", FALSE), Op("close", closed)>>
                         ELSE <<Op("run", FALSE)>>
    /\ ret' = None
    /\ cur' = cur + 1
    /\ UNCHANGED <<pc, result, expected, status, items, results>>
    /\ UNCHANGED <<ckVars, envVars>>

NextAgent == RunTaskAgentNotBuilt \/ RunTaskCallReturns \/ RunTaskCallRaises

SpecAgent == InitAgent /\ [][NextAgent]_vars

\* C28: after one or more calls, the stored prompt is the task of the last
\* call; when the external agent returned in that call, the stored result
\* is its result string, which the call returned; when it raised, the
\* stored result starts with "Error (", the exception has left the call,
\* and the browser session of the agent was asked to close after the run.
C28_StateReflectsLastCall ==
    cur > 0 =>
        /\ _last_prompt = Some(payload.task)
        /\ payload.outcome = "returned" =>
              /\ _last_result = Some(payload.value)
              /\ ret = Some(payload.value)
              /\ ~payload.raised
        /\ payload.outcome = "raised" =>
              /\ _last_result # None
              /\ _last_result[1] # <<>>
              /\ _last_result[1][1] = "Error ("
              /\ payload.raised
              /\ ret = None
              /\ payload.session =>
                    \E i, j \in 1..Len(transport) :
                        /\ i < j
                        /\ transport[i].op = "run"
                        /\ transport[j].op = "close"

\* A call that returned followed by a call in which the agent raised.
C28_Witness ==
    /\ cur = 2
    /\ payload.outcome = "raised"
    /\ payload.session
    /\ _last_result # None
    /\ _last_result[1][1] = "Error ("
    /\ Made("close") # {}

----------------------------------------------------------------------------
(* The shape of the checkpoint list of a test that did not pass.            *)

StatusRank == ("passed" :> 1) @@ ("failed" :> 2) @@ ("skipped" :> 3)

\* C29: for a test that did not pass, whatever last_step is, exactly one
\* checkpoint is failed, and the statuses read passed*, failed, skipped*:
\* no status is followed by one that comes before it in that order.
C29_ExactlyOneFailed ==
    (pc = "done" /\ ~test_passed) =>
        /\ Cardinality({i \in 1..Len(checkpoints) :
                            checkpoints[i].status = "failed"}) = 1
        /\ \A i, j \in 1..Len(checkpoints) :
             i < j => StatusRank[checkpoints[i].status]
                        <= StatusRank[checkpoints[j].status]

----------------------------------------------------------------------------
(* core/browser_agent.py: AdWaveBrowserAgent.register_account, and the      *)
(* verdict tests/test_registration.py computes on the string it returns.    *)
(* payload describes the run (the agent's own text, the final URL),         *)
(* transport what was asked of the browser and the agent, result the        *)
(* string returned to the test.                                             *)

MaxAgentPhrases == 2

\* str(result) of the external agent.
AgentTexts == {Flatten(ps) : ps \in SeqsUpTo(RegPhrases, MaxAgentPhrases)}

\* What browser.get_current_page_url() gives: a URL, or None (<<>>).
FinalUrls == {<<"https://host", "/campaign", "s">>, <<"https://host", "/signup">>, <<>>}

InitRegister ==
    /\ pc = "register_call"
    /\ payload = <<>>
    /\ transport = <<>>
    /\ result = <<>>
    /\ expected = <<>>
    /\ ret = <<>>
    /\ NoSession
    /\ test_name = "none"
    /\ test_passed = FALSE
    /\ last_step = 0
    /\ prompt = None
    /\ checkpoints = <<>>
    /\ NoEnvironment

\* if not self.gmail_helper: raise ValueError, before a browser is opened.
RegisterNoGmail ==
    /\ pc = "register_call"
    /\ pc' = "register_raised"
    /\ UNCHANGED <<payload, transport, result, expected, ret>>
    /\ UNCHANGED <<ckVars, sessVars, envVars>>

\* The agent returns: the final URL is read (the read may raise, which is
\* swallowed), the two markers are appended when the URL contains
\* "/campaign", the browser is closed in the finally clause and the string
\* goes back to the test.
RegisterReturns ==
    /\ pc = "register_call"
    /\ \E text \in AgentTexts, url \in FinalUrls, url_raises \in BOOLEAN,
          closed \in BOOLEAN :
         LET registration_success ==
                ~url_raises /\ url # <<>> /\ IsSubstring(<<"/campaign">>, url)
             result_str ==
                IF registration_success
                THEN text \o <<"\n", "REGISTRATION_SUCCESS:", " ", "true",
                               "\n", "LOGIN_SUCCESS:", " ", "true">>
                ELSE text
         IN  /\ result' = <<"REGISTRATION_EMAIL:", " ", "x+1@g", "\n">> \o result_str
             /\ payload' = [text |-> text, on_campaign |-> registration_success]
             /\ transport' = <<Op("open", TRUE), Op("run", TRUE),
                               Op("url", ~url_raises), Op("close", closed)>>
    /\ pc' = "call"
    /\ UNCHANGED <<expected, ret>>
    /\ UNCHANGED <<ckVars, sessVars, envVars>>

\* Agent(...) or agent.run() raises: the finally clause closes the browser
\* and the exception leaves register_account.
RegisterRaises ==
    /\ pc = "register_call"
    /\ \E closed \in BOOLEAN :
         transport' = <<Op("open", TRUE), Op("run", FALSE), Op("close", closed)>>
    /\ pc' = "register_raised"
    /\ UNCHANGED <<payload, result, expected, ret>>
    /\ UNCHANGED <<ckVars, sessVars, envVars>>

NextRegister ==
    \/ RegisterNoGmail
    \/ RegisterReturns
    \/ RegisterRaises
    \/ GetRegistrationSummary

SpecRegister == InitRegister /\ [][NextRegister]_vars

\* C30: when register_account saw a final URL that contains "/campaign",
\* the registration verdict computed on the string it returned is true,
\* whatever the agent's own text; and once register_account is over, by a
\* return or by an exception, a browser that was opened has been asked to
\* close, as the last operation.
C30_CampaignUrlGivesTrueVerdict ==
    /\ (pc = "done" /\ payload.on_campaign) => ret.registration_success
    /\ (pc \in {"call", "done", "register_raised"} /\ Made("open") # {}) =>
            transport[Len(transport)].op = "close"

====
